---- MODULE Spec2Model ----
(***************************************************************************)
(* Model of the reconciliation core of terraform-provider-midpoint-restapi *)
(* (restapi/api_object.go and the delta checker appended to it): the       *)
(* ignore-pattern matcher, the ignore-list descender, the delta engine     *)
(* getDelta, the projector filterIgnoredFields, the merger                 *)
(* mergeIgnoredFields and the patch synthesizer patchMidpointObject.       *)
(*                                                                         *)
(* Strings are sequences of one-character strings, so that HasPrefix,      *)
(* Split and Join do what the Go library functions do.  A JSON value is a  *)
(* record [t, s, o, a]: t is the kind, s the text of a scalar, o the map   *)
(* of an object (a function from field names to JSON values), a the        *)
(* elements of an array.  Two values are reflect.DeepEqual exactly when    *)
(* the records are equal.                                                  *)
(***************************************************************************)
EXTENDS Integers, Sequences, FiniteSets, TLC

(***************************************************************************)
(* Go strings                                                              *)
(***************************************************************************)
Dot == "."

WildcardPrefix == <<"*", ".">>

\* strings.HasPrefix
HasPrefix(str, prefix) ==
    /\ Len(str) >= Len(prefix)
    /\ SubSeq(str, 1, Len(prefix)) = prefix

\* strings.Split(str, "."): the pieces between the dots; a string without a
\* dot (the empty string included) gives one piece
RECURSIVE Split(_)
Split(str) ==
    IF \A i \in 1..Len(str) : str[i] # Dot
    THEN <<str>>
    ELSE LET i == CHOOSE j \in 1..Len(str) :
                     /\ str[j] = Dot
                     /\ \A h \in 1..(j - 1) : str[h] # Dot
         IN  <<SubSeq(str, 1, i - 1)>> \o Split(SubSeq(str, i + 1, Len(str)))

\* strings.Join(parts, ".")
RECURSIVE Join(_)
Join(parts) ==
    IF Len(parts) = 0 THEN <<>>
    ELSE IF Len(parts) = 1 THEN parts[1]
    ELSE parts[1] \o <<Dot>> \o Join(Tail(parts))

(***************************************************************************)
(* JSON values as encoding/json decodes them into interface{}              *)
(***************************************************************************)
NoFields == <<>>

JNull == [t |-> "null", s |-> <<>>, o |-> NoFields, a |-> <<>>]

JStr(text) == [t |-> "string", s |-> text, o |-> NoFields, a |-> <<>>]

JNum(text) == [t |-> "number", s |-> text, o |-> NoFields, a |-> <<>>]

JObj(fields) == [t |-> "object", s |-> <<>>, o |-> fields, a |-> <<>>]

JArr(elems) == [t |-> "array", s |-> <<>>, o |-> NoFields, a |-> elems]

\* m[key] of a Go map: the zero value nil when the key is absent
MapGet(m, key) == IF key \in DOMAIN m THEN m[key] ELSE JNull

(***************************************************************************)
(* Pattern matcher and path descender                                      *)
(***************************************************************************)
\* strings.HasSuffix
HasSuffix(str, suffix) ==
    /\ Len(str) >= Len(suffix)
    /\ SubSeq(str, Len(str) - Len(suffix) + 1, Len(str)) = suffix

\* a matcher whose wildcard matches every field name that ends in the name
\* after "*."
matchesIgnorePatternBySuffix(fieldName, ignoreList) ==
    \E i \in 1..Len(ignoreList) :
        LET pattern == ignoreList[i]
        IN  \/ pattern = fieldName
            \/ /\ HasPrefix(pattern, WildcardPrefix)
               /\ HasSuffix(fieldName, SubSeq(pattern, 3, Len(pattern)))

\* lines 1121-1136
matchesIgnorePattern(fieldName, ignoreList) ==
    \E i \in 1..Len(ignoreList) :
        LET pattern == ignoreList[i]
        IN  \/ pattern = fieldName
            \/ /\ HasPrefix(pattern, WildcardPrefix)
               /\ SubSeq(pattern, 3, Len(pattern)) = fieldName

\* the descender as it would be if simple keys were carried down a level
descendPatternKeepingSimpleKeys(descendPath, ignorePath) ==
    IF HasPrefix(ignorePath, WildcardPrefix)
    THEN <<ignorePath>>
    ELSE LET pathComponents == Split(ignorePath)
         IN  IF Len(pathComponents) = 1
             THEN <<ignorePath>>
             ELSE IF pathComponents[1] = descendPath
                  THEN <<Join(Tail(pathComponents))>>
                  ELSE <<>>

\* lines 1080-1101, the body of the loop: what one pattern contributes to the
\* list one level inside descendPath
descendPattern(descendPath, ignorePath) ==
    IF HasPrefix(ignorePath, WildcardPrefix)
    THEN <<ignorePath>>
    ELSE LET pathComponents == Split(ignorePath)
         IN  IF Len(pathComponents) = 1
             THEN <<>>
             ELSE IF pathComponents[1] = descendPath
                  THEN <<Join(Tail(pathComponents))>>
                  ELSE <<>>

\* the descender as it would be if it built its list back to front
RECURSIVE descendIgnoreListReversed(_, _)
descendIgnoreListReversed(descendPath, ignoreList) ==
    IF Len(ignoreList) = 0
    THEN <<>>
    ELSE descendIgnoreListReversed(descendPath, Tail(ignoreList))
             \o descendPattern(descendPath, Head(ignoreList))

RECURSIVE descendIgnoreList(_, _)
descendIgnoreList(descendPath, ignoreList) ==
    IF Len(ignoreList) = 0
    THEN <<>>
    ELSE descendPattern(descendPath, Head(ignoreList))
             \o descendIgnoreList(descendPath, Tail(ignoreList))

(***************************************************************************)
(* Delta engine                                                            *)
(***************************************************************************)
\* the verdict on one key or one array element: the value stored in the
\* merged tree, whether it counts as a change, and whether the comparison
\* hit a run-time panic (reflect.TypeOf(nil).Kind())
Verdict(val, chg, pnc) == [val |-> val, chg |-> chg, pnc |-> pnc]

\* an ignored key compared like any other value
ignoredVerdictComparing(valRecorded, valActual) ==
    Verdict(valActual, valRecorded # valActual, FALSE)

\* an ignored key storing what the server returned
ignoredVerdictStoringActual(valRecorded, valActual) == Verdict(valActual, FALSE, FALSE)

\* lines 919-922: an ignored key keeps the recorded value
ignoredVerdict(valRecorded, valActual) == Verdict(valRecorded, FALSE, FALSE)

\* the null branch without its "valActual != nil" test
nullVerdictOnPresence(valActual, actualHasKey) == Verdict(valActual, actualHasKey, FALSE)

\* lines 926-931: a recorded null against an omitted, null or set value
nullVerdict(valActual, actualHasKey) ==
    Verdict(valActual, actualHasKey /\ valActual.t # "null", FALSE)

\* a comparison that looks at the kinds of the two values only
scalarVerdictByKind(valRecorded, valActual) ==
    IF valRecorded.t # valActual.t
    THEN Verdict(valActual, TRUE, FALSE)
    ELSE Verdict(valRecorded, FALSE, FALSE)

\* lines 1037-1043 (and reflect.DeepEqual on two array elements): equality
scalarVerdict(valRecorded, valActual) ==
    IF valRecorded # valActual
    THEN Verdict(valActual, TRUE, FALSE)
    ELSE Verdict(valRecorded, FALSE, FALSE)

\* the second loop without its ignore test
addedKeysIgnoringNothing(recordedResource, actualResource, ignoreList) ==
    DOMAIN actualResource \ DOMAIN recordedResource

\* lines 1047-1063: the keys only actualResource has and no pattern ignores
addedKeys(recordedResource, actualResource, ignoreList) ==
    {key \in DOMAIN actualResource \ DOMAIN recordedResource :
        ~matchesIgnorePattern(key, ignoreList)}

\* line 998: reflect.TypeOf(elemRecorded).Kind() dereferences the nil Type
\* that reflect.TypeOf returns for a nil interface
elemKindPanics(elemRecorded) == elemRecorded.t = "null"

RECURSIVE getDelta(_, _, _)
getDelta(recordedResource, actualResource, ignoreList) ==
    LET deeper(key) == descendIgnoreList(key, ignoreList)
        \* lines 943-948 and 1004-1009: two maps, compared recursively
        mapVerdict(key, valRecorded, valActual) ==
            LET sub == getDelta(valRecorded.o, valActual.o, deeper(key))
            IN  IF sub.panicked THEN Verdict(JNull, FALSE, TRUE)
                ELSE IF sub.hasChanges
                THEN Verdict(JObj(sub.modifiedResource), TRUE, FALSE)
                ELSE Verdict(valRecorded, FALSE, FALSE)
        \* lines 993-1028: one position of two slices of equal length
        elemVerdict(key, elemRecorded, elemActual) ==
            IF elemKindPanics(elemRecorded)
            THEN Verdict(JNull, FALSE, TRUE)
            ELSE IF elemRecorded.t = "object" /\ elemActual.t = "object"
            THEN mapVerdict(key, elemRecorded, elemActual)
            ELSE scalarVerdict(elemRecorded, elemActual)
        \* lines 949-1036: a recorded slice
        sliceVerdict(key, valRecorded, valActual) ==
            IF valActual.t # "array"
            THEN scalarVerdict(valRecorded, valActual)
            ELSE IF Len(valRecorded.a) # Len(valActual.a)
            THEN Verdict(valActual, TRUE, FALSE)
            ELSE LET ev == [i \in 1..Len(valRecorded.a) |->
                              elemVerdict(key, valRecorded.a[i], valActual.a[i])]
                 IN  IF \E i \in 1..Len(ev) : ev[i].pnc
                     THEN Verdict(JNull, FALSE, TRUE)
                     ELSE IF \E i \in 1..Len(ev) : ev[i].chg
                     THEN Verdict(JArr([i \in 1..Len(ev) |-> ev[i].val]), TRUE, FALSE)
                     ELSE Verdict(valRecorded, FALSE, FALSE)
        \* lines 914-1045: one key of recordedResource
        keyVerdict(key) ==
            LET valRecorded == recordedResource[key]
                actualHasKey == key \in DOMAIN actualResource
                valActual == MapGet(actualResource, key)
            IN  IF matchesIgnorePattern(key, ignoreList)
                THEN ignoredVerdict(valRecorded, valActual)
                ELSE IF valRecorded.t = "null"
                THEN nullVerdict(valActual, actualHasKey)
                ELSE IF valRecorded.t = "object"
                THEN IF valActual.t # "object"
                     THEN Verdict(valActual, TRUE, FALSE)
                     ELSE mapVerdict(key, valRecorded, valActual)
                ELSE IF valRecorded.t = "array"
                THEN sliceVerdict(key, valRecorded, valActual)
                ELSE scalarVerdict(valRecorded, valActual)
        kv == [key \in DOMAIN recordedResource |-> keyVerdict(key)]
        added == addedKeys(recordedResource, actualResource, ignoreList)
    IN  IF \E key \in DOMAIN kv : kv[key].pnc
        THEN [modifiedResource |-> NoFields, hasChanges |-> FALSE, panicked |-> TRUE]
        ELSE [modifiedResource |->
                  [key \in DOMAIN recordedResource \cup added |->
                      IF key \in DOMAIN recordedResource
                      THEN kv[key].val ELSE actualResource[key]],
              hasChanges |-> (\E key \in DOMAIN kv : kv[key].chg) \/ added # {},
              panicked |-> FALSE]

(***************************************************************************)
(* Field projector                                                         *)
(***************************************************************************)
\* the loop skipping the first key that matches and no other
keptKeysSkippingOnce(data, ignoreList) ==
    LET matched == {key \in DOMAIN data : matchesIgnorePattern(key, ignoreList)}
    IN  IF matched = {} THEN DOMAIN data
        ELSE DOMAIN data \ {CHOOSE key \in matched : TRUE}

\* lines 1154-1158: the keys the loop does not skip
keptKeys(data, ignoreList) ==
    {key \in DOMAIN data : ~matchesIgnorePattern(key, ignoreList)}

\* the projector as it would be if it filtered the object elements of an
\* array with the list of the array's own level
RECURSIVE filterElementsWithSameList(_, _)
filterElementsWithSameList(data, ignoreList) ==
    LET kept == keptKeys(data, ignoreList)
        filterElem(key, elem) ==
            IF elem.t = "object"
            THEN JObj(filterElementsWithSameList(elem.o, ignoreList))
            ELSE elem
    IN  [key \in kept |->
            LET value == data[key]
            IN  IF value.t = "object"
                THEN JObj(filterElementsWithSameList(value.o,
                                                     descendIgnoreList(key, ignoreList)))
                ELSE IF value.t = "array"
                THEN JArr([i \in 1..Len(value.a) |-> filterElem(key, value.a[i])])
                ELSE value]

RECURSIVE filterIgnoredFields(_, _)
filterIgnoredFields(data, ignoreList) ==
    LET kept == keptKeys(data, ignoreList)
        filterElem(key, elem) ==
            IF elem.t = "object"
            THEN JObj(filterIgnoredFields(elem.o, descendIgnoreList(key, ignoreList)))
            ELSE elem
    IN  [key \in kept |->
            LET value == data[key]
            IN  IF value.t = "object"
                THEN JObj(filterIgnoredFields(value.o, descendIgnoreList(key, ignoreList)))
                ELSE IF value.t = "array"
                THEN JArr([i \in 1..Len(value.a) |-> filterElem(key, value.a[i])])
                ELSE value]

(***************************************************************************)
(* Ignored-field merger                                                    *)
(***************************************************************************)
\* the merger as it would be if it passed its list down unchanged
RECURSIVE mergeCarryingList(_, _, _)
mergeCarryingList(desired, api, ignoreList) ==
    LET preserved == {key \in DOMAIN api : matchesIgnorePattern(key, ignoreList)}
    IN  [key \in DOMAIN desired \cup preserved |->
            IF key \in preserved
            THEN api[key]
            ELSE IF /\ key \in DOMAIN api
                    /\ desired[key].t = "object"
                    /\ api[key].t = "object"
            THEN JObj(mergeCarryingList(desired[key].o, api[key].o, ignoreList))
            ELSE desired[key]]

RECURSIVE mergeIgnoredFields(_, _, _)
mergeIgnoredFields(desired, api, ignoreList) ==
    LET preserved == {key \in DOMAIN api : matchesIgnorePattern(key, ignoreList)}
    IN  [key \in DOMAIN desired \cup preserved |->
            IF key \in preserved
            THEN api[key]
            ELSE IF /\ key \in DOMAIN api
                    /\ desired[key].t = "object"
                    /\ api[key].t = "object"
            THEN JObj(mergeIgnoredFields(desired[key].o, api[key].o,
                                         descendIgnoreList(key, ignoreList)))
            ELSE desired[key]]

(***************************************************************************)
(* Go maps and slices as shared cells.  A map[string]interface{} and a     *)
(* []interface{} are references: a heap is a sequence of cells, the        *)
(* address of a cell is its position, and a value stored in a cell is a    *)
(* scalar or a reference to another cell.  The four functions below are    *)
(* the functions above again, statement by statement, with every make,     *)
(* every assignment to a map entry or slice position and every append      *)
(* acting on the heap; each returns the heap it leaves behind.             *)
(***************************************************************************)
Ref(at) == [t |-> "ref", s |-> <<>>, o |-> NoFields, a |-> <<>>, at |-> at]

MapCell(fields) == [t |-> "map", o |-> fields, a |-> <<>>]

SliceCell(elems) == [t |-> "slice", o |-> NoFields, a |-> elems]

IsMapRef(h, v) == v.t = "ref" /\ h[v.at].t = "map"

IsSliceRef(h, v) == v.t = "ref" /\ h[v.at].t = "slice"

\* make(...): a new cell at the next free address
Alloc(h, cell) == [h |-> Append(h, cell), at |-> Len(h) + 1]

\* m[key] = val
SetKey(h, at, key, val) ==
    [h EXCEPT ![at].o = [k \in DOMAIN @ \cup {key} |-> IF k = key THEN val ELSE @[k]]]

\* s[i] = val
SetIndex(h, at, i, val) == [h EXCEPT ![at].a[i] = val]

\* s = append(s, val), within the capacity s was made with
AppendTo(h, at, val) == [h EXCEPT ![at].a = Append(@, val)]

\* the keys a range over a map produces, in one of the orders it may take
RECURSIVE KeysInOrder(_)
KeysInOrder(keys) ==
    IF keys = {} THEN <<>>
    ELSE LET key == CHOOSE k \in keys : TRUE
         IN  <<key>> \o KeysInOrder(keys \ {key})

\* json.Unmarshal of a document: the tree v laid out in new cells
RECURSIVE Store(_, _)
Store(h, v) ==
    LET RECURSIVE fields(_, _, _)
        fields(hh, at, keys) ==
            IF keys = <<>> THEN hh
            ELSE LET r == Store(hh, v.o[Head(keys)])
                 IN  fields(SetKey(r.h, at, Head(keys), r.v), at, Tail(keys))
        RECURSIVE elems(_, _, _)
        elems(hh, at, i) ==
            IF i > Len(v.a) THEN hh
            ELSE LET r == Store(hh, v.a[i])
                 IN  elems(AppendTo(r.h, at, r.v), at, i + 1)
    IN  IF v.t = "object"
        THEN LET cell == Alloc(h, MapCell(NoFields))
             IN  [h |-> fields(cell.h, cell.at, KeysInOrder(DOMAIN v.o)),
                  v |-> Ref(cell.at)]
        ELSE IF v.t = "array"
        THEN LET cell == Alloc(h, SliceCell(<<>>))
             IN  [h |-> elems(cell.h, cell.at, 1), v |-> Ref(cell.at)]
        ELSE [h |-> h, v |-> v]

\* the tree a value of the heap stands for
RECURSIVE Load(_, _)
Load(h, v) ==
    IF v.t # "ref" THEN v
    ELSE IF h[v.at].t = "map"
    THEN JObj([key \in DOMAIN h[v.at].o |-> Load(h, h[v.at].o[key])])
    ELSE JArr([i \in 1..Len(h[v.at].a) |-> Load(h, h[v.at].a[i])])

\* the strings of a []string
ListAt(h, at) == [i \in 1..Len(h[at].a) |-> h[at].a[i].s]

\* lines 1077-1104
descendIgnoreListOnHeap(h, descendPath, ignoreList) ==
    LET newIgnoreList == Alloc(h, SliceCell(<<>>))
        RECURSIVE loop(_, _)
        loop(hh, i) ==
            IF i > Len(hh[ignoreList].a) THEN hh
            ELSE LET kept == descendPattern(descendPath, hh[ignoreList].a[i].s)
                 IN  IF kept = <<>> THEN loop(hh, i + 1)
                     ELSE loop(AppendTo(hh, newIgnoreList.at, JStr(kept[1])), i + 1)
    IN  [h |-> loop(newIgnoreList.h, 1), at |-> newIgnoreList.at]

\* line 1152, result := make(map[string]interface{})
resultOfFilter(h, data) == Alloc(h, MapCell(NoFields))

\* lines 1147-1186
RECURSIVE filterIgnoredFieldsOnHeap(_, _, _)
filterIgnoredFieldsOnHeap(h, data, ignoreList) ==
    LET result == resultOfFilter(h, data)
        \* lines 1169-1177
        RECURSIVE elems(_, _, _, _, _)
        elems(hh, sliceValue, filteredSlice, descendedIgnoreList, i) ==
            IF i > Len(hh[sliceValue].a) THEN hh
            ELSE LET elem == hh[sliceValue].a[i]
                 IN  IF IsMapRef(hh, elem)
                     THEN LET r == filterIgnoredFieldsOnHeap(hh, elem.at,
                                                             descendedIgnoreList)
                          IN  elems(SetIndex(r.h, filteredSlice, i, Ref(r.at)),
                                    sliceValue, filteredSlice, descendedIgnoreList, i + 1)
                     ELSE elems(SetIndex(hh, filteredSlice, i, elem),
                                sliceValue, filteredSlice, descendedIgnoreList, i + 1)
        \* lines 1154-1183
        RECURSIVE loop(_, _)
        loop(hh, keys) ==
            IF keys = <<>> THEN hh
            ELSE LET key == Head(keys)
                     value == hh[data].o[key]
                 IN  IF matchesIgnorePattern(key, ListAt(hh, ignoreList))
                     THEN loop(hh, Tail(keys))
                     ELSE IF IsMapRef(hh, value)
                     THEN LET d == descendIgnoreListOnHeap(hh, key, ignoreList)
                              r == filterIgnoredFieldsOnHeap(d.h, value.at, d.at)
                          IN  loop(SetKey(r.h, result.at, key, Ref(r.at)), Tail(keys))
                     ELSE IF IsSliceRef(hh, value)
                     THEN LET d == descendIgnoreListOnHeap(hh, key, ignoreList)
                              filteredSlice ==
                                  Alloc(d.h, SliceCell([i \in 1..Len(hh[value.at].a)
                                                           |-> JNull]))
                              filled == elems(filteredSlice.h, value.at,
                                              filteredSlice.at, d.at, 1)
                          IN  loop(SetKey(filled, result.at, key, Ref(filteredSlice.at)),
                                   Tail(keys))
                     ELSE loop(SetKey(hh, result.at, key, value), Tail(keys))
    IN  [h |-> loop(result.h, KeysInOrder(DOMAIN h[data].o)), at |-> result.at]

\* the merger as it would be if it added the ignored fields to desired
\* itself: result is desired
resultOfMergeInPlace(h, desired) == [h |-> h, at |-> desired]

\* lines 541-546: result := make(map[string]interface{}), then every field
\* of desired copied into it
resultOfMerge(h, desired) ==
    LET result == Alloc(h, MapCell(NoFields))
    IN  [h |-> [result.h EXCEPT ![result.at].o = h[desired].o], at |-> result.at]

\* lines 540-576
RECURSIVE mergeIgnoredFieldsOnHeap(_, _, _, _)
mergeIgnoredFieldsOnHeap(h, desired, api, ignoreList) ==
    LET result == resultOfMerge(h, desired)
        \* lines 549-573
        RECURSIVE loop(_, _)
        loop(hh, keys) ==
            IF keys = <<>> THEN hh
            ELSE LET key == Head(keys)
                     apiValue == hh[api].o[key]
                     exists == key \in DOMAIN hh[result.at].o
                     desiredValue == MapGet(hh[result.at].o, key)
                 IN  IF matchesIgnorePattern(key, ListAt(hh, ignoreList))
                     THEN loop(SetKey(hh, result.at, key, apiValue), Tail(keys))
                     ELSE IF /\ exists
                             /\ IsMapRef(hh, desiredValue)
                             /\ IsMapRef(hh, apiValue)
                     THEN LET d == descendIgnoreListOnHeap(hh, key, ignoreList)
                              r == mergeIgnoredFieldsOnHeap(d.h, desiredValue.at,
                                                            apiValue.at, d.at)
                          IN  loop(SetKey(r.h, result.at, key, Ref(r.at)), Tail(keys))
                     ELSE loop(hh, Tail(keys))
    IN  [h |-> loop(result.h, KeysInOrder(DOMAIN h[api].o)), at |-> result.at]

\* line 908, modifiedResource = map[string]interface{}{}
modifiedResourceOf(h, recordedResource) == Alloc(h, MapCell(NoFields))

\* reflect.DeepEqual, and != on two interface values one of which is a scalar
DeepEqual(h, v, w) == Load(h, v) = Load(h, w)

\* lines 907-1066; checkedKeys is the key set of recordedResource
RECURSIVE getDeltaOnHeap(_, _, _, _)
getDeltaOnHeap(h, recordedResource, actualResource, ignoreList) ==
    LET modifiedResource == modifiedResourceOf(h, recordedResource)
        panic(hh) == [h |-> hh, hasChanges |-> FALSE, panicked |-> TRUE]
        \* modifiedResource[key] = val, and hasChanges = true when chg
        put(st, hh, key, val, chg) ==
            [h |-> SetKey(hh, modifiedResource.at, key, val),
             hasChanges |-> st.hasChanges \/ chg,
             panicked |-> FALSE]
        \* modifiedSlice[i] = val, and sliceHasChanges = true when chg
        place(st, hh, modifiedSlice, i, val, chg) ==
            [h |-> SetIndex(hh, modifiedSlice, i, val),
             hasChanges |-> st.hasChanges \/ chg,
             panicked |-> FALSE]
        \* lines 993-1028
        RECURSIVE elems(_, _, _, _, _, _)
        elems(st, sliceRecorded, sliceActual, modifiedSlice, deeperIgnoreList, i) ==
            IF i > Len(st.h[sliceRecorded].a) THEN st
            ELSE LET elemRecorded == st.h[sliceRecorded].a[i]
                     elemActual == st.h[sliceActual].a[i]
                     sub == getDeltaOnHeap(st.h, elemRecorded.at, elemActual.at,
                                           deeperIgnoreList)
                     next(s) == elems(s, sliceRecorded, sliceActual, modifiedSlice,
                                      deeperIgnoreList, i + 1)
                 IN  IF elemRecorded.t = "null"
                     THEN panic(st.h)
                     ELSE IF IsMapRef(st.h, elemRecorded) /\ IsMapRef(st.h, elemActual)
                     THEN IF sub.panicked THEN panic(sub.h)
                          ELSE IF sub.hasChanges
                          THEN next(place(st, sub.h, modifiedSlice, i, Ref(sub.at), TRUE))
                          ELSE next(place(st, sub.h, modifiedSlice, i, elemRecorded, FALSE))
                     ELSE IF ~DeepEqual(st.h, elemRecorded, elemActual)
                     THEN next(place(st, st.h, modifiedSlice, i, elemActual, TRUE))
                     ELSE next(place(st, st.h, modifiedSlice, i, elemRecorded, FALSE))
        \* lines 914-1045
        RECURSIVE recorded(_, _)
        recorded(st, keys) ==
            IF keys = <<>> \/ st.panicked THEN st
            ELSE LET key == Head(keys)
                     valRecorded == st.h[recordedResource].o[key]
                     actualHasKey == key \in DOMAIN st.h[actualResource].o
                     valActual == MapGet(st.h[actualResource].o, key)
                     deeper == descendIgnoreListOnHeap(st.h, key, ignoreList)
                     sub == getDeltaOnHeap(deeper.h, valRecorded.at, valActual.at,
                                           deeper.at)
                     modifiedSlice ==
                         Alloc(deeper.h,
                               SliceCell([i \in 1..Len(st.h[valRecorded.at].a) |-> JNull]))
                     compared ==
                         elems([h |-> modifiedSlice.h, hasChanges |-> FALSE,
                                panicked |-> FALSE],
                               valRecorded.at, valActual.at, modifiedSlice.at,
                               deeper.at, 1)
                     next(s) == recorded(s, Tail(keys))
                 IN  IF matchesIgnorePattern(key, ListAt(st.h, ignoreList))
                     THEN next(put(st, st.h, key, valRecorded, FALSE))
                     ELSE IF valRecorded.t = "null"
                     THEN next(put(st, st.h, key, valActual,
                                   actualHasKey /\ valActual.t # "null"))
                     ELSE IF IsMapRef(st.h, valRecorded)
                     THEN IF ~IsMapRef(st.h, valActual)
                          THEN next(put(st, st.h, key, valActual, TRUE))
                          ELSE IF sub.panicked THEN panic(sub.h)
                          ELSE IF sub.hasChanges
                          THEN next(put(st, sub.h, key, Ref(sub.at), TRUE))
                          ELSE next(put(st, sub.h, key, valRecorded, FALSE))
                     ELSE IF IsSliceRef(st.h, valRecorded)
                     THEN IF ~IsSliceRef(st.h, valActual)
                          THEN next(put(st, st.h, key, valActual, TRUE))
                          ELSE IF Len(st.h[valRecorded.at].a) # Len(st.h[valActual.at].a)
                          THEN next(put(st, st.h, key, valActual, TRUE))
                          ELSE IF compared.panicked THEN panic(compared.h)
                          ELSE IF compared.hasChanges
                          THEN next(put(st, compared.h, key, Ref(modifiedSlice.at), TRUE))
                          ELSE next(put(st, compared.h, key, valRecorded, FALSE))
                     ELSE IF ~DeepEqual(st.h, valRecorded, valActual)
                     THEN next(put(st, st.h, key, valActual, TRUE))
                     ELSE next(put(st, st.h, key, valRecorded, FALSE))
        \* lines 1047-1063
        RECURSIVE actual(_, _)
        actual(st, keys) ==
            IF keys = <<>> \/ st.panicked THEN st
            ELSE LET key == Head(keys)
                 IN  IF \/ key \in DOMAIN h[recordedResource].o
                        \/ matchesIgnorePattern(key, ListAt(st.h, ignoreList))
                     THEN actual(st, Tail(keys))
                     ELSE actual(put(st, st.h, key, st.h[actualResource].o[key], TRUE),
                                 Tail(keys))
        last == actual(recorded([h |-> modifiedResource.h, hasChanges |-> FALSE,
                                 panicked |-> FALSE],
                                KeysInOrder(DOMAIN h[recordedResource].o)),
                       KeysInOrder(DOMAIN h[actualResource].o))
    IN  [h |-> last.h, at |-> modifiedResource.at, hasChanges |-> last.hasChanges,
         panicked |-> last.panicked]

(***************************************************************************)
(* Bounded inputs                                                          *)
(***************************************************************************)
MaxArrLen == 2

MaxPatterns == 2

A == <<"a">>

B == <<"b">>

One == <<"1">>

KF == <<"f">>

KG == <<"g">>

KO == <<"o">>

\* a field name that itself contains a dot
KOdotF == <<"o", ".", "f">>

Absent == [t |-> "absent", s |-> <<>>, o |-> NoFields, a |-> <<>>]

\* the objects whose field k is absent or holds a value of pal[k]
ObjectsOver(pal) ==
    LET all == UNION {pal[k] : k \in DOMAIN pal} \cup {Absent}
        choices == {c \in [DOMAIN pal -> all] :
                       \A k \in DOMAIN pal : c[k] = Absent \/ c[k] \in pal[k]}
    IN  { [k \in {kk \in DOMAIN pal : c[kk] # Absent} |-> c[k]] : c \in choices }

SeqsUpTo(S, n) == UNION { [1..m -> S] : m \in 0..n }

FA == JObj([k \in {KF} |-> JStr(A)])

FB == JObj([k \in {KF} |-> JStr(B)])

LeafVals == {JNull, JStr(A), JStr(B), JNum(One)}

InnerObjs ==
    ObjectsOver([k \in {KF, KG} |->
                    IF k = KF THEN {JNull, JStr(A), JStr(B)} ELSE {JStr(A), JStr(B)}])

Arrays ==
    { JArr(elems) : elems \in SeqsUpTo({JNull, FA, FB}, MaxArrLen) }
        \cup {JArr(<<JStr(A)>>), JArr(<<JStr(B)>>), JArr(<<JStr(A), FA>>),
              JArr(<<JObj([k \in {KF} |-> JNull])>>), JArr(<<JObj(NoFields)>>)}

\* documents of two levels: a scalar field f and a scalar or object field o
ObjDocs ==
    ObjectsOver([k \in {KF, KO} |->
        IF k = KF THEN LeafVals ELSE {JStr(A)} \cup {JObj(m) : m \in InnerObjs}])

\* documents with an array field o beside a scalar field f
ArrDocs ==
    ObjectsOver([k \in {KF, KO} |->
        IF k = KF THEN {JStr(A), JStr(B)} ELSE Arrays \cup {JStr(A), FA}])

\* documents of three levels: o.f, o.o.f, o.o.g
DeepDocs ==
    { [k \in {KO} |-> JObj(m)] :
        m \in ObjectsOver([k \in {KF, KO} |->
                 IF k = KF THEN {JStr(A), JStr(B)} ELSE {JObj(i) : i \in InnerObjs}]) }

\* documents with a dotted field name, an object under the root field f,
\* and an array directly inside an array
EdgeDocs ==
    ObjectsOver([k \in {KF, KO, KOdotF} |->
        IF k = KF THEN {FA, FB}
        ELSE IF k = KO THEN {FA, FB, JArr(<<JArr(<<FA>>)>>), JArr(<<JArr(<<FB>>)>>)}
        ELSE {JStr(A), JStr(B)}])

DocFamilies == {ObjDocs, ArrDocs, DeepDocs, EdgeDocs}

PatF == <<"f">>

PatAnyF == <<"*", ".", "f">>

PatOF == <<"o", ".", "f">>

PatOOF == <<"o", ".", "o", ".", "f">>

PatO == <<"o">>

PatOG == <<"o", ".", "g">>

PatternSeq == <<PatF, PatAnyF, PatOF, PatOOF, PatO, PatOG>>

\* the pattern at each chosen position of PatternSeq, in order
RECURSIVE Pick(_, _)
Pick(seq, idx) ==
    IF Len(seq) = 0 THEN <<>>
    ELSE (IF Len(seq) \in idx THEN Pick(SubSeq(seq, 1, Len(seq) - 1), idx) \o <<seq[Len(seq)]>>
          ELSE Pick(SubSeq(seq, 1, Len(seq) - 1), idx))

PatternLists ==
    { Pick(PatternSeq, idx) :
        idx \in {s \in SUBSET (1..Len(PatternSeq)) : Cardinality(s) <= MaxPatterns} }

\* every list made of some of the patterns of a list, in the same order
SubLists(list) == { Pick(list, idx) : idx \in SUBSET (1..Len(list)) }

PatOAnyF == <<"o", ".", "*", ".", "f">>

PatAnyOF == <<"*", ".", "o", ".", "f">>

PatODot == <<"o", ".">>

PatEmpty == <<>>

KStar == <<"*">>

\* the patterns and keys the descender is called with on its own: the three
\* shapes, a path through a component "*", a wildcard over a path, a path
\* ending in a dot and the empty string
DescendPatterns ==
    {PatF, PatAnyF, PatOF, PatOOF, PatO, PatOAnyF, PatAnyOF, PatODot, PatEmpty}

DescendLists == SeqsUpTo(DescendPatterns, MaxPatterns)

DescendKeys == {KO, KF, KStar}

\* the documents of the calls on the heap: a scalar f beside an object, an
\* array of objects and nulls, an array inside an array or an object of two
\* levels under o
HeapDocs ==
    ObjectsOver([k \in {KF, KO} |->
        IF k = KF THEN {JNull, JStr(A), JStr(B)}
        ELSE {FA, FB, JObj([kk \in {KF, KG} |-> JStr(A)]), JObj([kk \in {KO} |-> FA]),
              JObj([kk \in {KO} |-> FB]), JArr(<<FA, JNull>>), JArr(<<FA, FB>>),
              JArr(<<FB, FB>>), JArr(<<JArr(<<FA>>)>>)}])

HeapLists == {list \in PatternLists : Len(list) <= 1}

\* the documents of the patch runs: a scalar f, an object o and the identity
\* field; a document with o alone is an envelope around o
IdAttribute == <<"o", "i", "d">>

FlatDocs ==
    ObjectsOver([k \in {KF, KO, IdAttribute} |->
        IF k = KF THEN {JStr(A), JStr(B)}
        ELSE IF k = KO
        THEN {FA, FB, JObj([kk \in {KF, KG} |-> JStr(A)]), JArr(<<FA, JNull>>)}
        ELSE {JStr(One)}])

KRole == <<"r", "o", "l", "e">>

KName == <<"n", "a", "m", "e">>

KPriority == <<"p", "r", "i", "o", "r", "i", "t", "y">>

KAtMetadata == <<"@", "m", "e", "t", "a", "d", "a", "t", "a">>

KTs == <<"t", "s">>

PatAnyMetadata == <<"*", ".", "m", "e", "t", "a", "d", "a", "t", "a">>

\* {"role":{"name":"x","priority":5}}
ScenarioDesired ==
    [k \in {KRole} |->
        JObj([kk \in {KName, KPriority} |->
                IF kk = KName THEN JStr(<<"x">>) ELSE JNum(<<"5">>)])]

\* {"role":{"name":"x","priority":3,"@metadata":{"ts":1}}}
ScenarioAuthoritative ==
    [k \in {KRole} |->
        JObj([kk \in {KName, KPriority, KAtMetadata} |->
                IF kk = KName THEN JStr(<<"x">>)
                ELSE IF kk = KPriority THEN JNum(<<"3">>)
                ELSE JObj([kkk \in {KTs} |-> JNum(One)])])]

ScenarioDocs == {ScenarioDesired, ScenarioAuthoritative}

\* documents in an envelope o around a scalar f and an object o
EnvelopeDocs ==
    { [k \in {KO} |-> JObj(m)] :
        m \in ObjectsOver([k \in {KF, KO} |->
                 IF k = KF THEN {JStr(A), JStr(B)} ELSE {FA, FB}]) }

PatchFamilies == {FlatDocs, ScenarioDocs, EnvelopeDocs}

PatchLists == {list \in PatternLists : Len(list) <= 1} \cup {<<PatAnyMetadata>>}

\* the bodies a server answers a PATCH with: not a JSON object, or an object
BadBody == [valid |-> FALSE, doc |-> NoFields]

Responses ==
    {BadBody} \cup
    { [valid |-> TRUE, doc |-> m] :
        m \in { NoFields,
                [k \in {KG} |-> JStr(B)],
                [k \in {KF, IdAttribute} |-> IF k = KF THEN JStr(A) ELSE JStr(One)] } }

(***************************************************************************)
(* State: the fields of one APIObject, the result of the last call, and    *)
(* the position and locals of a run of patchMidpointObject                 *)
(***************************************************************************)
VARIABLES
    data,               \* obj.data, the recorded / desired tree
    apiData,            \* obj.apiData, the actual / authoritative tree
    ignoreChangesTo,    \* obj.ignoreChangesTo, the ignore_changes_to list
    id,                 \* obj.id
    writeReturnsObject, \* obj.apiClient.writeReturnsObject
    createReturnsObject,\* obj.apiClient.createReturnsObject
    op,                 \* the call that has run
    delta,              \* what getDelta returned
    filtered,           \* what filterIgnoredFields returned
    pc,                 \* where the run of patchMidpointObject stands
    desiredData,        \* its local desiredData
    aliased,            \* its local workingApiData is the map obj.apiData
    workingInner,       \* its local workingApiData when it is an unwrapped map
    startApi,           \* its local workingApiData as it was when the run began
    todo,               \* the keys the running range loop has yet to produce
    sent,               \* the PATCH requests handed to sendRequest, in order
    err,                \* the error the run returned
    requests,           \* the requests handed to sendRequest, in order
    descendPath,        \* the key _descendIgnoreList was called with
    newIgnoreList,      \* what _descendIgnoreList returned
    heap,               \* the cells of the maps and slices of a call on the heap
    roots,              \* the addresses of the arguments of that call
    resultAt            \* the address of what that call returned

vars == <<data, apiData, ignoreChangesTo, id, writeReturnsObject,
          createReturnsObject, op, delta, filtered, pc, desiredData, aliased,
          workingInner, startApi, todo, sent, err, requests, descendPath,
          newIgnoreList, heap, roots, resultAt>>

objVars == <<data, apiData, ignoreChangesTo, id, writeReturnsObject,
             createReturnsObject>>

flowVars == <<descendPath, newIgnoreList, heap, roots, resultAt>>

runVars == <<pc, desiredData, aliased, workingInner, startApi, todo, sent, err,
             requests>>

NoDelta == [modifiedResource |-> NoFields, hasChanges |-> FALSE, panicked |-> FALSE]

NoError == [failed |-> "", attribute |-> <<>>, cause |-> ""]

NoRun ==
    /\ pc = "idle"
    /\ desiredData = NoFields
    /\ aliased = FALSE
    /\ workingInner = NoFields
    /\ startApi = NoFields
    /\ todo = {}
    /\ sent = <<>>
    /\ err = NoError
    /\ requests = <<>>

NoRoots == [data |-> 0, apiData |-> 0, ignoreList |-> 0]

NoCall ==
    /\ op = "none"
    /\ delta = NoDelta
    /\ filtered = NoFields
    /\ descendPath = <<>>
    /\ newIgnoreList = <<>>
    /\ heap = <<>>
    /\ roots = NoRoots
    /\ resultAt = 0

(***************************************************************************)
(* The delta engine on its own                                             *)
(***************************************************************************)
Init ==
    /\ \E fam \in DocFamilies : data \in fam /\ apiData \in fam
    /\ ignoreChangesTo \in PatternLists
    /\ id = One
    /\ writeReturnsObject = FALSE
    /\ createReturnsObject = FALSE
    /\ NoCall
    /\ NoRun

\* resource_api_object.go:410, getDelta(obj.data, obj.apiData, ignoreList)
CallGetDelta ==
    /\ op = "none"
    /\ op' = "getDelta"
    /\ delta' = getDelta(data, apiData, ignoreChangesTo)
    /\ UNCHANGED <<flowVars, objVars, filtered, runVars>>

Next == CallGetDelta

Spec == Init /\ [][Next]_vars

(***************************************************************************)
(* The projector on its own                                                *)
(***************************************************************************)
InitFilter ==
    /\ data \in UNION DocFamilies
    /\ apiData = NoFields
    /\ ignoreChangesTo \in PatternLists
    /\ id = One
    /\ writeReturnsObject = FALSE
    /\ createReturnsObject = FALSE
    /\ NoCall
    /\ NoRun

\* resource_api_object.go:334, filterIgnoredFields(obj.data, ignoreList)
CallFilterIgnoredFields ==
    /\ op = "none"
    /\ op' = "filterIgnoredFields"
    /\ filtered' = filterIgnoredFields(data, ignoreChangesTo)
    /\ UNCHANGED <<flowVars, objVars, delta, runVars>>

NextFilter == CallFilterIgnoredFields

SpecFilter == InitFilter /\ [][NextFilter]_vars

(***************************************************************************)
(* The merger on its own                                                   *)
(***************************************************************************)
InitMerge ==
    /\ \E fam \in DocFamilies : data \in fam /\ apiData \in fam
    /\ ignoreChangesTo \in PatternLists
    /\ id = One
    /\ writeReturnsObject = FALSE
    /\ createReturnsObject = FALSE
    /\ NoCall
    /\ NoRun

\* api_object.go:633, desiredData = mergeIgnoredFields(desiredData,
\* workingApiData, obj.ignoreChangesTo, obj.debug)
CallMergeIgnoredFields ==
    /\ op = "none"
    /\ op' = "mergeIgnoredFields"
    /\ desiredData' = mergeIgnoredFields(data, apiData, ignoreChangesTo)
    /\ UNCHANGED <<flowVars, objVars, delta, filtered, pc, aliased, workingInner, startApi,
                   todo, sent, err, requests>>

NextMerge == CallMergeIgnoredFields

SpecMerge == InitMerge /\ [][NextMerge]_vars

(***************************************************************************)
(* The descender on its own                                                *)
(***************************************************************************)
InitDescend ==
    /\ data = NoFields
    /\ apiData = NoFields
    /\ ignoreChangesTo \in DescendLists
    /\ id = One
    /\ writeReturnsObject = FALSE
    /\ createReturnsObject = FALSE
    /\ NoCall
    /\ NoRun

\* api_object.go:1162, _descendIgnoreList(key, ignoreList)
CallDescendIgnoreList ==
    /\ op = "none"
    /\ op' = "_descendIgnoreList"
    /\ \E key \in DescendKeys :
          /\ descendPath' = key
          /\ newIgnoreList' = descendIgnoreList(key, ignoreChangesTo)
    /\ UNCHANGED <<objVars, delta, filtered, runVars, heap, roots, resultAt>>

NextDescend == CallDescendIgnoreList

SpecDescend == InitDescend /\ [][NextDescend]_vars

(***************************************************************************)
(* The four functions on the heap                                          *)
(***************************************************************************)
\* the arguments as the caller holds them: two decoded documents and a list
InitHeap ==
    /\ data \in HeapDocs
    /\ apiData \in HeapDocs
    /\ ignoreChangesTo \in HeapLists
    /\ id = One
    /\ writeReturnsObject = FALSE
    /\ createReturnsObject = FALSE
    /\ op = "none"
    /\ delta = NoDelta
    /\ filtered = NoFields
    /\ descendPath = <<>>
    /\ newIgnoreList = <<>>
    /\ LET d == Store(<<>>, JObj(data))
           a == Store(d.h, JObj(apiData))
           l == Alloc(a.h, SliceCell([i \in 1..Len(ignoreChangesTo) |->
                                         JStr(ignoreChangesTo[i])]))
       IN  /\ heap = l.h
           /\ roots = [data |-> d.v.at, apiData |-> a.v.at, ignoreList |-> l.at]
    /\ resultAt = 0
    /\ NoRun

\* resource_api_object.go:410, getDelta(obj.data, obj.apiData, ignoreList)
HeapGetDelta ==
    /\ op = "none"
    /\ op' = "getDelta"
    /\ LET r == getDeltaOnHeap(heap, roots.data, roots.apiData, roots.ignoreList)
       IN  /\ heap' = r.h
           /\ resultAt' = r.at
           /\ delta' = [modifiedResource |->
                            IF r.panicked THEN NoFields ELSE Load(r.h, Ref(r.at)).o,
                        hasChanges |-> r.hasChanges,
                        panicked |-> r.panicked]
    /\ UNCHANGED <<objVars, filtered, runVars, descendPath, newIgnoreList, roots>>

\* resource_api_object.go:334, filterIgnoredFields(obj.data, ignoreList)
HeapFilterIgnoredFields ==
    /\ op = "none"
    /\ op' = "filterIgnoredFields"
    /\ LET r == filterIgnoredFieldsOnHeap(heap, roots.data, roots.ignoreList)
       IN  /\ heap' = r.h
           /\ resultAt' = r.at
           /\ filtered' = Load(r.h, Ref(r.at)).o
    /\ UNCHANGED <<objVars, delta, runVars, descendPath, newIgnoreList, roots>>

\* api_object.go:633, mergeIgnoredFields(desiredData, workingApiData,
\* obj.ignoreChangesTo, obj.debug)
HeapMergeIgnoredFields ==
    /\ op = "none"
    /\ op' = "mergeIgnoredFields"
    /\ LET r == mergeIgnoredFieldsOnHeap(heap, roots.data, roots.apiData,
                                         roots.ignoreList)
       IN  /\ heap' = r.h
           /\ resultAt' = r.at
           /\ desiredData' = Load(r.h, Ref(r.at)).o
    /\ UNCHANGED <<objVars, delta, filtered, pc, aliased, workingInner, startApi,
                   todo, sent, err, requests, descendPath, newIgnoreList, roots>>

\* api_object.go:1162, _descendIgnoreList(key, ignoreList)
HeapDescendIgnoreList ==
    /\ op = "none"
    /\ op' = "_descendIgnoreList"
    /\ \E key \in DescendKeys :
          LET r == descendIgnoreListOnHeap(heap, key, roots.ignoreList)
          IN  /\ descendPath' = key
              /\ heap' = r.h
              /\ resultAt' = r.at
              /\ newIgnoreList' = ListAt(r.h, r.at)
    /\ UNCHANGED <<objVars, delta, filtered, runVars, roots>>

NextHeap ==
    \/ HeapGetDelta
    \/ HeapFilterIgnoredFields
    \/ HeapMergeIgnoredFields
    \/ HeapDescendIgnoreList

SpecHeap == InitHeap /\ [][NextHeap]_vars

(***************************************************************************)
(* Patch synthesis: one run of patchMidpointObject                         *)
(***************************************************************************)
\* sendMidpointPatch, lines 703-721: the "value" of the itemDelta; Absent
\* when the itemDelta gets no "value" key
payloadValue(modificationType, value, ignoreList) ==
    IF modificationType = "delete" \/ value.t = "null"
    THEN Absent
    ELSE IF value.t = "object"
    THEN JObj(filterIgnoredFields(value.o, ignoreList))
    ELSE IF value.t = "array"
    THEN JArr([i \in 1..Len(value.a) |->
                 IF value.a[i].t = "object"
                 THEN JObj(filterIgnoredFields(value.a[i].o, ignoreList))
                 ELSE value.a[i]])
    ELSE value

\* json.Unmarshal of an object into the existing map obj.apiData: the keys
\* of the body are set, the other entries stay
Unmarshal(into, body) ==
    [k \in DOMAIN into \cup DOMAIN body |-> IF k \in DOMAIN body THEN body[k] ELSE into[k]]

\* what GetStringAtKey, whose code is outside restapi/api_object.go, may
\* give for the identity field: a string, possibly empty
ExtractedIds == {<<>>, One}

\* lines 597-622: both documents have the same single key and both values
\* under it are objects
Unwraps ==
    /\ Cardinality(DOMAIN data) = 1
    /\ DOMAIN data = DOMAIN apiData
    /\ \A k \in DOMAIN data : data[k].t = "object" /\ apiData[k].t = "object"

\* the local workingApiData as the run reads it now
workingApiData == IF aliased THEN apiData ELSE workingInner

\* the id is empty only when the read before the run got a 404 (lines
\* 367-371); the runs with an empty id start from the smaller families
InitPatch ==
    /\ \E fam \in PatchFamilies :
          /\ data \in fam
          /\ apiData \in fam
          /\ id \in (IF fam = FlatDocs THEN {One} ELSE {<<>>, One})
    /\ ignoreChangesTo \in PatchLists
    /\ writeReturnsObject \in BOOLEAN
    /\ createReturnsObject = FALSE
    /\ NoCall
    /\ NoRun

\* lines 578-634: unwrap the envelope, copy the desired keys, merge the
\* ignored fields of the authoritative tree, enter the first loop
PatchBegin ==
    /\ pc = "idle"
    /\ LET k == CHOOSE kk \in DOMAIN data : TRUE
           workingData == IF Unwraps THEN data[k].o ELSE data
           workingApi == IF Unwraps THEN apiData[k].o ELSE apiData
       IN  /\ aliased' = ~Unwraps
           /\ workingInner' = IF Unwraps THEN workingApi ELSE NoFields
           /\ startApi' = workingApi
           /\ desiredData' = IF Len(ignoreChangesTo) > 0
                             THEN mergeIgnoredFields(workingData, workingApi, ignoreChangesTo)
                             ELSE workingData
           /\ todo' = DOMAIN desiredData'
    /\ pc' = "adds"
    /\ UNCHANGED <<flowVars, objVars, op, delta, filtered, sent, err, requests>>

\* a failure that is recorded while the loop moves on to the next key
FailsAndGoesOn(modificationType, key, cause) ==
    /\ err' = [failed |-> modificationType, attribute |-> key, cause |-> cause]
    /\ todo' = todo \ {key}
    /\ UNCHANGED pc

\* lines 645-647, 654-656, 681-683: return fmt.Errorf("failed to ... attribute")
Fails(modificationType, key, cause) ==
    /\ pc' = "failed"
    /\ err' = [failed |-> modificationType, attribute |-> key, cause |-> cause]
    /\ UNCHANGED todo

\* the loop goes on after the request for key; a range over the map
\* obj.apiData may or may not produce the entries the response created
GoesOn(key, created) ==
    /\ \E produced \in SUBSET created : todo' = (todo \ {key}) \cup produced
    /\ UNCHANGED <<pc, err>>

\* lines 743 and 764 (and 316, 366): a request to the path of the object, {id}
\* replaced by obj.id as it is now
Request(method) == [method |-> method, id |-> id]

\* sendMidpointPatch, lines 694-778, and the error wrapping of its caller
sendMidpointPatch(modificationType, key, value) ==
    /\ sent' = Append(sent, [modificationType |-> modificationType,
                             path |-> key,
                             value |-> payloadValue(modificationType, value, ignoreChangesTo)])
    /\ requests' = Append(requests, Request("PATCH"))
    /\ \/ \* sendRequest returns an error
          /\ Fails(modificationType, key, "sendRequest")
          /\ UNCHANGED <<apiData, id>>
       \/ /\ ~writeReturnsObject
          /\ GoesOn(key, {})
          /\ UNCHANGED <<apiData, id>>
       \/ \* updateState, lines 238-284
          /\ writeReturnsObject
          /\ \E body \in Responses :
               IF ~body.valid
               THEN /\ Fails(modificationType, key, "Unmarshal")
                    /\ UNCHANGED <<apiData, id>>
               ELSE LET merged == Unmarshal(apiData, body.doc)
                        created == IF aliased /\ pc = "deletes"
                                   THEN DOMAIN merged \ DOMAIN apiData ELSE {}
                    IN  /\ apiData' = merged
                        /\ IF id # <<>>
                           THEN GoesOn(key, created) /\ UNCHANGED id
                           ELSE \/ GoesOn(key, created) /\ id' \in ExtractedIds
                                \/ Fails(modificationType, key, "GetStringAtKey")
                                       /\ UNCHANGED id
    /\ UNCHANGED <<flowVars, data, ignoreChangesTo, writeReturnsObject,
                   createReturnsObject, op, delta, filtered, desiredData, aliased,
                   workingInner, startApi>>

\* lines 641-648: a desired key the authoritative tree does not have
PatchAdd ==
    /\ pc = "adds"
    /\ \E key \in todo :
         /\ key \notin DOMAIN workingApiData
         /\ sendMidpointPatch("add", key, desiredData[key])

\* the replace as it would be sent by one loop over the keys of both trees
PatchReplaceInEitherLoop ==
    /\ pc \in {"adds", "deletes"}
    /\ \E key \in todo \cap DOMAIN desiredData :
         /\ key \in DOMAIN workingApiData
         /\ workingApiData[key] # desiredData[key]
         /\ sendMidpointPatch("replace", key, desiredData[key])

\* lines 649-657: a desired key whose authoritative value is another one
PatchReplace ==
    /\ pc = "adds"
    /\ \E key \in todo :
         /\ key \in DOMAIN workingApiData
         /\ workingApiData[key] # desiredData[key]
         /\ sendMidpointPatch("replace", key, desiredData[key])

\* lines 637-658: a desired key whose authoritative value is the same
PatchKeep ==
    /\ pc = "adds"
    /\ \E key \in todo :
         /\ key \in DOMAIN workingApiData
         /\ workingApiData[key] = desiredData[key]
         /\ todo' = todo \ {key}
    /\ UNCHANGED <<flowVars, objVars, op, delta, filtered, pc, desiredData, aliased,
                   workingInner, startApi, sent, err, requests>>

\* line 662: the first loop is over, the second ranges over workingApiData
PatchStartDeletes ==
    /\ pc = "adds"
    /\ todo = {}
    /\ pc' = "deletes"
    /\ todo' = DOMAIN workingApiData
    /\ UNCHANGED <<flowVars, objVars, op, delta, filtered, desiredData, aliased,
                   workingInner, startApi, sent, err, requests>>

\* lines 663-675: a key that is desired, or the identity field, or ignored
PatchSkip ==
    /\ pc = "deletes"
    /\ \E key \in todo :
         /\ \/ key \in DOMAIN desiredData
            \/ key = IdAttribute
            \/ matchesIgnorePattern(key, ignoreChangesTo)
         /\ todo' = todo \ {key}
    /\ UNCHANGED <<flowVars, objVars, op, delta, filtered, pc, desiredData, aliased,
                   workingInner, startApi, sent, err, requests>>

\* lines 677-684: an authoritative key that is not desired
PatchDelete ==
    /\ pc = "deletes"
    /\ \E key \in todo :
         /\ key \notin DOMAIN desiredData
         /\ key # IdAttribute
         /\ ~matchesIgnorePattern(key, ignoreChangesTo)
         /\ sendMidpointPatch("delete", key, JNull)

\* line 690: return nil
PatchReturn ==
    /\ pc = "deletes"
    /\ todo = {}
    /\ pc' = "done"
    /\ UNCHANGED <<flowVars, objVars, op, delta, filtered, desiredData, aliased,
                   workingInner, startApi, todo, sent, err, requests>>

NextPatch ==
    \/ PatchBegin
    \/ PatchAdd
    \/ PatchReplace
    \/ PatchKeep
    \/ PatchStartDeletes
    \/ PatchSkip
    \/ PatchDelete
    \/ PatchReturn

SpecPatch == InitPatch /\ [][NextPatch]_vars

(***************************************************************************)
(* resourceRestAPIUpdate and updateObject with update method PATCH and     *)
(* ignore_all_server_changes false, copy_keys and read_search unset        *)
(***************************************************************************)
\* the documents of the update and create flows
UpdateDocs ==
    ObjectsOver([k \in {KF, KO} |-> IF k = KF THEN {JStr(A), JStr(B)} ELSE {FA, FB}])

\* the bodies a server answers a GET with
ReadResponses == {BadBody} \cup { [valid |-> TRUE, doc |-> m] : m \in UpdateDocs }

Returns(cause) ==
    /\ pc' = "failed"
    /\ err' = [failed |-> "readObject", attribute |-> <<>>, cause |-> cause]

\* readObject, lines 341-408: the request, then the 404 case, any other
\* error, or updateState on the body; returned is where the caller goes on
\* when readObject returns nil
readObject(returned) ==
    IF id = <<>>
    THEN Returns("no id") /\ UNCHANGED <<apiData, id, requests>>
    ELSE /\ requests' = Append(requests, Request("GET"))
         /\ \/ \* lines 367-371: a 404 empties the id and is no error
               /\ id' = <<>>
               /\ pc' = returned
               /\ UNCHANGED <<apiData, err>>
            \/ \* line 372: any other error of sendRequest
               /\ Returns("sendRequest")
               /\ UNCHANGED <<apiData, id>>
            \/ \* line 407, updateState(resultString); the id is set
               \E body \in ReadResponses :
                   IF ~body.valid
                   THEN Returns("Unmarshal") /\ UNCHANGED <<apiData, id>>
                   ELSE /\ apiData' = Unmarshal(apiData, body.doc)
                        /\ pc' = returned
                        /\ UNCHANGED <<id, err>>

\* makeAPIObject built the object from the resource data: the id is the
\* resource's, apiData is the empty map of NewAPIObject
InitUpdate ==
    /\ data \in UpdateDocs
    /\ apiData = NoFields
    /\ ignoreChangesTo \in PatchLists
    /\ id = One
    /\ writeReturnsObject \in BOOLEAN
    /\ createReturnsObject = FALSE
    /\ NoCall
    /\ pc = "update"
    /\ desiredData = NoFields
    /\ aliased = FALSE
    /\ workingInner = NoFields
    /\ startApi = NoFields
    /\ todo = {}
    /\ sent = <<>>
    /\ err = NoError
    /\ requests = <<>>

\* resource_api_object.go:401-407: with an ignore list, read the object
UpdateReadForDetection ==
    /\ pc = "update"
    /\ Len(ignoreChangesTo) > 0
    /\ readObject("detect")
    /\ UNCHANGED <<flowVars, data, ignoreChangesTo, writeReturnsObject,
                   createReturnsObject, op, delta, filtered, desiredData, aliased,
                   workingInner, startApi, todo, sent>>

\* resource_api_object.go:401: without an ignore list, go on to updateObject
UpdateWithoutDetection ==
    /\ pc = "update"
    /\ Len(ignoreChangesTo) = 0
    /\ pc' = "updateObject"
    /\ UNCHANGED <<flowVars, objVars, op, delta, filtered, desiredData, aliased,
                   workingInner, startApi, todo, sent, err, requests>>

\* a detection that goes on to updateObject whatever getDelta reports
UpdateDetectAlwaysUpdating ==
    /\ pc = "detect"
    /\ op' = "getDelta"
    /\ delta' = getDelta(data, apiData, ignoreChangesTo)
    /\ pc' = IF delta'.panicked THEN "panicked" ELSE "updateObject"
    /\ UNCHANGED <<flowVars, objVars, filtered, desiredData, aliased, workingInner,
                   startApi, todo, sent, err, requests>>

\* resource_api_object.go:409-431: getDelta, and return nil when it reports
\* no change
UpdateDetect ==
    /\ pc = "detect"
    /\ op' = "getDelta"
    /\ delta' = getDelta(data, apiData, ignoreChangesTo)
    /\ pc' = IF delta'.panicked THEN "panicked"
             ELSE IF delta'.hasChanges THEN "updateObject" ELSE "done"
    /\ UNCHANGED <<flowVars, objVars, filtered, desiredData, aliased, workingInner,
                   startApi, todo, sent, err, requests>>

\* updateObject, lines 410-452: refuse an empty id, read the object, and call
\* patchMidpointObject when the read returned nil
UpdateObject ==
    /\ pc = "updateObject"
    /\ IF id = <<>>
       THEN /\ pc' = "failed"
            /\ err' = [failed |-> "updateObject", attribute |-> <<>>, cause |-> "no id"]
            /\ UNCHANGED <<apiData, id, requests>>
       ELSE readObject("idle")
    /\ UNCHANGED <<flowVars, data, ignoreChangesTo, writeReturnsObject,
                   createReturnsObject, op, delta, filtered, desiredData, aliased,
                   workingInner, startApi, todo, sent>>

NextUpdate ==
    \/ UpdateReadForDetection
    \/ UpdateWithoutDetection
    \/ UpdateDetect
    \/ UpdateObject
    \/ PatchBegin
    \/ PatchAdd
    \/ PatchReplace
    \/ PatchKeep
    \/ PatchStartDeletes
    \/ PatchSkip
    \/ PatchDelete
    \/ PatchReturn

SpecUpdate == InitUpdate /\ [][NextUpdate]_vars

(***************************************************************************)
(* createObject                                                            *)
(***************************************************************************)
\* the object as makeAPIObject built it for a create: the id is the one the
\* data or the configuration gave, or empty
InitCreate ==
    /\ data \in UpdateDocs
    /\ apiData = NoFields
    /\ ignoreChangesTo \in PatchLists
    /\ id \in {<<>>, One}
    /\ writeReturnsObject \in BOOLEAN
    /\ createReturnsObject \in BOOLEAN
    /\ NoCall
    /\ pc = "create"
    /\ desiredData = NoFields
    /\ aliased = FALSE
    /\ workingInner = NoFields
    /\ startApi = NoFields
    /\ todo = {}
    /\ sent = <<>>
    /\ err = NoError
    /\ requests = <<>>

Refuses(cause) ==
    /\ pc' = "failed"
    /\ err' = [failed |-> "createObject", attribute |-> <<>>, cause |-> cause]

\* lines 325-330 and 338: after updateState returned cause ("" for nil), an
\* empty id is an error of its own, otherwise the error of updateState is
\* returned
Validated(idNow, cause) ==
    IF idNow = <<>>
    THEN Refuses("no id after create")
    ELSE IF cause = ""
    THEN pc' = "done" /\ UNCHANGED err
    ELSE Refuses(cause)

\* lines 291-293: no id, and the client reads no object from the response
CreateRefused ==
    /\ pc = "create"
    /\ id = <<>> /\ ~writeReturnsObject /\ ~createReturnsObject
    /\ Refuses("no id")
    /\ UNCHANGED <<flowVars, objVars, op, delta, filtered, desiredData, aliased,
                   workingInner, startApi, todo, sent, requests>>

\* lines 295-338: the create request and, when the response holds the
\* object, updateState on it
CreateSend ==
    /\ pc = "create"
    /\ ~(id = <<>> /\ ~writeReturnsObject /\ ~createReturnsObject)
    /\ requests' = Append(requests, Request("POST"))
    /\ \/ \* line 317: sendRequest returns an error
          /\ Refuses("sendRequest")
          /\ UNCHANGED <<apiData, id>>
       \/ \* line 337: the object is read in a request of its own
          /\ ~(writeReturnsObject \/ createReturnsObject)
          /\ pc' = "read"
          /\ UNCHANGED <<apiData, id, err>>
       \/ \* line 325, updateState(resultString)
          /\ writeReturnsObject \/ createReturnsObject
          /\ \E body \in Responses :
               IF ~body.valid
               THEN /\ Validated(id, "Unmarshal")
                    /\ UNCHANGED <<apiData, id>>
               ELSE /\ apiData' = Unmarshal(apiData, body.doc)
                    /\ IF id # <<>>
                       THEN Validated(id, "") /\ UNCHANGED id
                       ELSE \/ \E val \in ExtractedIds :
                                  id' = val /\ Validated(val, "")
                            \/ Validated(id, "GetStringAtKey") /\ UNCHANGED id
    /\ UNCHANGED <<flowVars, data, ignoreChangesTo, writeReturnsObject,
                   createReturnsObject, op, delta, filtered, desiredData, aliased,
                   workingInner, startApi, todo, sent>>

\* line 337, err = obj.readObject(), and line 339, return err
CreateRead ==
    /\ pc = "read"
    /\ readObject("done")
    /\ UNCHANGED <<flowVars, data, ignoreChangesTo, writeReturnsObject,
                   createReturnsObject, op, delta, filtered, desiredData, aliased,
                   workingInner, startApi, todo, sent>>

NextCreate ==
    \/ CreateRefused
    \/ CreateSend
    \/ CreateRead

SpecCreate == InitCreate /\ [][NextCreate]_vars

(***************************************************************************)
(* Helpers of the properties                                               *)
(***************************************************************************)
Without(m, key) == [k \in DOMAIN m \ {key} |-> m[k]]

Returned == op = "getDelta" /\ ~delta.panicked

\* two results agree on failing and, when they return, on the changed flag
SameVerdict(r1, r2) ==
    /\ r1.panicked = r2.panicked
    /\ ~r1.panicked => r1.hasChanges = r2.hasChanges

\* a value without the fields named f of the objects in it; arrays inside
\* arrays are searched too when deep is TRUE
RECURSIVE StripVal(_, _, _)
StripVal(v, deep, top) ==
    IF v.t = "object"
    THEN JObj([k \in DOMAIN v.o \ {KF} |-> StripVal(v.o[k], deep, TRUE)])
    ELSE IF v.t = "array" /\ (top \/ deep)
    THEN JArr([i \in 1..Len(v.a) |-> StripVal(v.a[i], deep, FALSE)])
    ELSE v

\* a document without its nested fields f: every one of them (deep), or the
\* ones reached through objects and through objects placed directly in an
\* array, outside the value of a root field f
StripNested(doc, deep) ==
    [k \in DOMAIN doc |-> IF k = KF /\ ~deep THEN doc[k] ELSE StripVal(doc[k], deep, TRUE)]

\* act with a null f put back wherever rec holds a null f that act omits
RECURSIVE FillVal(_, _)
FillVal(r, a) ==
    IF r.t = "object" /\ a.t = "object"
    THEN LET omitted == IF KF \in DOMAIN r.o /\ KF \notin DOMAIN a.o
                        THEN (IF r.o[KF].t = "null" THEN {KF} ELSE {}) ELSE {}
         IN  JObj([k \in DOMAIN a.o \cup omitted |->
                     IF k \notin DOMAIN a.o THEN JNull
                     ELSE IF k \in DOMAIN r.o THEN FillVal(r.o[k], a.o[k])
                     ELSE a.o[k]])
    ELSE IF r.t = "array" /\ a.t = "array" /\ Len(r.a) = Len(a.a)
    THEN JArr([i \in 1..Len(a.a) |-> FillVal(r.a[i], a.a[i])])
    ELSE a

\* the two documents differ only by nested null fields f that act omits
OnlyNullOmitted(rec, act) ==
    /\ DOMAIN rec = DOMAIN act
    /\ \A k \in DOMAIN rec : FillVal(rec[k], act[k]) = rec[k]

IsDotted(pattern) == ~HasPrefix(pattern, WildcardPrefix) /\ Len(Split(pattern)) > 1

\* a map without the field at the path comps, looked for through objects and
\* through the objects placed directly in an array
RECURSIVE RemovePath(_, _)
RemovePath(m, comps) ==
    IF Len(comps) = 1
    THEN Without(m, comps[1])
    ELSE [k \in DOMAIN m |->
            IF k # comps[1] THEN m[k]
            ELSE IF m[k].t = "object"
            THEN JObj(RemovePath(m[k].o, Tail(comps)))
            ELSE IF m[k].t = "array"
            THEN JArr([i \in 1..Len(m[k].a) |->
                        IF m[k].a[i].t = "object"
                        THEN JObj(RemovePath(m[k].a[i].o, Tail(comps)))
                        ELSE m[k].a[i]])
            ELSE m[k]]

ReplacePriority5 ==
    [modificationType |-> "replace", path |-> KPriority, value |-> JNum(<<"5">>)]

DeleteAtMetadata ==
    [modificationType |-> "delete", path |-> KAtMetadata, value |-> Absent]

\* a run on scenario B: the desired and the authoritative document of the
\* scenario, unwrapped from the envelope "role", and the list ["*.metadata"]
ScenarioB ==
    /\ pc # "idle"
    /\ data = ScenarioDesired
    /\ ~aliased
    /\ workingInner = ScenarioAuthoritative[KRole].o
    /\ ignoreChangesTo = <<PatAnyMetadata>>

IsPrefix(s, t) == Len(s) <= Len(t) /\ SubSeq(t, 1, Len(s)) = s

\* C2 as stated: on scenario B the run sends exactly one request, the
\* replace of priority with 5; it sends no delete of @metadata and no add.
C2_AsStated ==
    ScenarioB
    => /\ IsPrefix(sent, <<ReplacePriority5>>)
       /\ pc = "done" => sent = <<ReplacePriority5>>

\* C2 amended: on scenario B the run sends the replace of priority with 5
\* and then, when that request succeeds, the delete of @metadata, which the
\* pattern "*.metadata" does not match; it sends nothing else, and a run that
\* returns without error has sent both.
C2_ScenarioB ==
    ScenarioB
    => /\ IsPrefix(sent, <<ReplacePriority5, DeleteAtMetadata>>)
       /\ pc = "done" => sent = <<ReplacePriority5, DeleteAtMetadata>>
       /\ (pc = "failed" /\ Len(sent) = 2) => err.failed = "delete"

\* scenario B run to its end
C2_Witness ==
    /\ ScenarioB
    /\ pc = "done"
    /\ Len(sent) = 2

(***************************************************************************)
(* C3                                                                      *)
(***************************************************************************)
\* C3: getDelta(T, T, P) returns the tree T and changed = false, for every
\* document T and every pattern list P.
C3_Idempotent ==
    (op = "getDelta" /\ data = apiData)
    => delta = [modifiedResource |-> data, hasChanges |-> FALSE, panicked |-> FALSE]

\* C3 apart from the failure of C4: a getDelta of a document against itself
\* that returns, returns the document and changed = false.
C3_IdempotentWhenReturned ==
    (Returned /\ data = apiData)
    => delta = [modifiedResource |-> data, hasChanges |-> FALSE, panicked |-> FALSE]

(***************************************************************************)
(* C4                                                                      *)
(***************************************************************************)
\* C4: getDelta never fails; a key not ignored whose two values differ in
\* kind is a change and the merged tree holds the actual value; two scalar
\* values of a key are a change exactly when they differ.
C4_Total ==
    op = "getDelta"
    => /\ ~delta.panicked
       /\ \A key \in DOMAIN data \cap DOMAIN apiData :
            ~matchesIgnorePattern(key, ignoreChangesTo)
            => /\ data[key].t # apiData[key].t
                    => /\ delta.hasChanges
                       /\ delta.modifiedResource[key] = apiData[key]
               /\ (DOMAIN data = {key} /\ DOMAIN apiData = {key}
                     /\ data[key].t \in {"string", "number"}
                     /\ apiData[key].t \in {"string", "number"})
                    => delta.hasChanges = (data[key] # apiData[key])

\* C4 apart from the failure: the kind and scalar rules on every getDelta
\* that returns.
C4_RulesWhenReturned ==
    Returned
    => \A key \in DOMAIN data \cap DOMAIN apiData :
         ~matchesIgnorePattern(key, ignoreChangesTo)
         => /\ data[key].t # apiData[key].t
                 => /\ delta.hasChanges
                    /\ delta.modifiedResource[key] = apiData[key]
            /\ (DOMAIN data = {key} /\ DOMAIN apiData = {key}
                  /\ data[key].t \in {"string", "number"}
                  /\ apiData[key].t \in {"string", "number"})
                 => delta.hasChanges = (data[key] # apiData[key])

\* the failing call: the recorded array of a compared key holds a null and
\* the actual value is an array of the same length
C4_Panics ==
    /\ op = "getDelta"
    /\ delta.panicked
    /\ ignoreChangesTo = <<>>
    /\ data = apiData

(***************************************************************************)
(* C5                                                                      *)
(***************************************************************************)
\* C5: a key that is not ignored and whose recorded value is null changes
\* nothing in the result when the actual document omits it or holds null for
\* it, and makes the result changed, with the actual value in the merged
\* tree, when the actual document holds a value that is not null.
C5_NullOmission ==
    op = "getDelta"
    => \A key \in DOMAIN data :
         (data[key].t = "null" /\ ~matchesIgnorePattern(key, ignoreChangesTo))
         => IF key \notin DOMAIN apiData \/ apiData[key].t = "null"
            THEN /\ SameVerdict(delta, getDelta(Without(data, key), Without(apiData, key),
                                                ignoreChangesTo))
                 /\ ~delta.panicked => delta.modifiedResource[key] = JNull
            ELSE ~delta.panicked
                    => /\ delta.hasChanges
                       /\ delta.modifiedResource[key] = apiData[key]

\* the recorded null that the server left out, beside a field that is equal
C5_Witness ==
    /\ Returned /\ ~delta.hasChanges
    /\ DOMAIN apiData # {}
    /\ \E key \in DOMAIN data \ DOMAIN apiData :
         data[key].t = "null" /\ ~matchesIgnorePattern(key, ignoreChangesTo)

(***************************************************************************)
(* C6                                                                      *)
(***************************************************************************)
\* C6: whenever getDelta reports changed = false, the merged tree equals the
\* recorded document.
C6_UnchangedIsRecorded ==
    (Returned /\ ~delta.hasChanges) => delta.modifiedResource = data

\* an ignored key the server removed and an ignored key the server added
C6_Witness ==
    /\ Returned /\ ~delta.hasChanges
    /\ DOMAIN data \ DOMAIN apiData # {}
    /\ DOMAIN apiData \ DOMAIN data # {}

(***************************************************************************)
(* C7                                                                      *)
(***************************************************************************)
\* C7: if getDelta reports changed under a list, it reports changed under
\* every list made of some of that list's patterns.
C7_Monotone ==
    (Returned /\ delta.hasChanges)
    => \A fewer \in SubLists(ignoreChangesTo) :
         LET r == getDelta(data, apiData, fewer)
         IN  ~r.panicked /\ r.hasChanges

\* C7 apart from the failure of C4: under every list of some of the
\* patterns, a getDelta that returns reports changed.
C7_MonotoneWhenReturned ==
    (Returned /\ delta.hasChanges)
    => \A fewer \in SubLists(ignoreChangesTo) :
         LET r == getDelta(data, apiData, fewer)
         IN  ~r.panicked => r.hasChanges

(***************************************************************************)
(* C8                                                                      *)
(***************************************************************************)
\* C8: filtering is idempotent: filtering the filtered document again, by
\* the same list, gives the filtered document.
C8_FilterIdempotent ==
    op = "filterIgnoredFields"
    => filterIgnoredFields(filtered, ignoreChangesTo) = filtered

\* a filtering that removed a root field and a field of the object o
C8_Witness ==
    /\ op = "filterIgnoredFields"
    /\ DOMAIN filtered # DOMAIN data
    /\ KO \in DOMAIN filtered
    /\ filtered[KO].t = "object"
    /\ filtered[KO] # data[KO]

(***************************************************************************)
(* C9                                                                      *)
(***************************************************************************)
\* C9: a dotted-path pattern suppresses exactly the field at that path: the
\* verdict under the one pattern is the verdict, under no pattern, on the two
\* documents without the field at the path.
C9_DottedPathExact ==
    (op = "getDelta" /\ Len(ignoreChangesTo) = 1 /\ IsDotted(ignoreChangesTo[1]))
    => SameVerdict(delta,
                   getDelta(RemovePath(data, Split(ignoreChangesTo[1])),
                            RemovePath(apiData, Split(ignoreChangesTo[1])), <<>>))

\* C9 on documents without a root field whose name is the dotted pattern
\* itself.
C9_ExactWithoutDottedNames ==
    (op = "getDelta" /\ Len(ignoreChangesTo) = 1 /\ IsDotted(ignoreChangesTo[1])
        /\ KOdotF \notin DOMAIN data \cup DOMAIN apiData)
    => SameVerdict(delta,
                   getDelta(RemovePath(data, Split(ignoreChangesTo[1])),
                            RemovePath(apiData, Split(ignoreChangesTo[1])), <<>>))

(***************************************************************************)
(* C10                                                                     *)
(***************************************************************************)
\* C10: a key matched by the patterns at the current level contributes
\* nothing: the verdict is the verdict on the two documents without the key,
\* the merged tree holds the recorded value of the key when the recorded
\* document has it, and does not hold the key otherwise.
C10_IgnoredKeyContributesNothing ==
    op = "getDelta"
    => \A key \in DOMAIN data \cup DOMAIN apiData :
         matchesIgnorePattern(key, ignoreChangesTo)
         => LET rest == getDelta(Without(data, key), Without(apiData, key), ignoreChangesTo)
            IN  /\ SameVerdict(delta, rest)
                /\ ~delta.panicked
                     => /\ Without(delta.modifiedResource, key) = rest.modifiedResource
                        /\ IF key \in DOMAIN data
                           THEN /\ key \in DOMAIN delta.modifiedResource
                                /\ delta.modifiedResource[key] = data[key]
                           ELSE key \notin DOMAIN delta.modifiedResource

\* an ignored key whose value changed kind, and nothing reported
C10_Witness ==
    /\ Returned /\ ~delta.hasChanges
    /\ \E key \in DOMAIN data \cap DOMAIN apiData :
         /\ matchesIgnorePattern(key, ignoreChangesTo)
         /\ data[key].t # apiData[key].t

(***************************************************************************)
(* C11                                                                     *)
(***************************************************************************)
\* some key that no pattern ignores, reached through objects that no pattern
\* ignores, holds a value that is not null in exactly one of the documents
RECURSIVE HasOneSidedKey(_, _, _)
HasOneSidedKey(rec, act, list) ==
    \E key \in DOMAIN rec \cup DOMAIN act :
        /\ ~matchesIgnorePattern(key, list)
        /\ \/ key \notin DOMAIN act /\ rec[key].t # "null"
           \/ key \notin DOMAIN rec /\ act[key].t # "null"
           \/ /\ key \in DOMAIN rec \cap DOMAIN act
              /\ rec[key].t = "object" /\ act[key].t = "object"
              /\ HasOneSidedKey(rec[key].o, act[key].o, descendIgnoreList(key, list))

\* the keys of the root that only the actual document has and no pattern
\* ignores are in the merged tree with the actual value
AddedKeysCopied ==
    \A key \in DOMAIN apiData \ DOMAIN data :
        ~matchesIgnorePattern(key, ignoreChangesTo)
        => /\ key \in DOMAIN delta.modifiedResource
           /\ delta.modifiedResource[key] = apiData[key]

\* C11: whenever a key that is not ignored holds a value that is not null in
\* exactly one of the two documents, at the root or inside nested objects,
\* getDelta reports changed = true, and a key only the actual document has
\* is copied into the merged tree.
C11_OneSidedKeyIsChange ==
    (op = "getDelta" /\ HasOneSidedKey(data, apiData, ignoreChangesTo))
    => /\ ~delta.panicked
       /\ delta.hasChanges
       /\ AddedKeysCopied

\* C11 apart from the failure of C4: the same on every getDelta that returns.
C11_OneSidedWhenReturned ==
    (Returned /\ HasOneSidedKey(data, apiData, ignoreChangesTo))
    => /\ delta.hasChanges
       /\ AddedKeysCopied

\* a field the server removed beside an array that makes getDelta fail
C11_Panics ==
    /\ op = "getDelta"
    /\ delta.panicked
    /\ DOMAIN data \ DOMAIN apiData # {}
    /\ HasOneSidedKey(data, apiData, ignoreChangesTo)

(***************************************************************************)
(* C12                                                                     *)
(***************************************************************************)
\* the keys of the root that no pattern ignores and that hold an array in
\* both documents
ArrayKeys ==
    {key \in DOMAIN data \cap DOMAIN apiData :
        /\ ~matchesIgnorePattern(key, ignoreChangesTo)
        /\ data[key].t = "array" /\ apiData[key].t = "array"}

\* the comparison of the two elements at position i of the arrays under key:
\* two objects by getDelta under the descended patterns, others by equality
PositionDelta(key, i) ==
    getDelta(data[key].a[i].o, apiData[key].a[i].o,
             descendIgnoreList(key, ignoreChangesTo))

BothObjects(key, i) ==
    data[key].a[i].t = "object" /\ apiData[key].a[i].t = "object"

PositionDiffers(key, i) ==
    IF BothObjects(key, i)
    THEN PositionDelta(key, i).hasChanges
    ELSE data[key].a[i] # apiData[key].a[i]

\* what the policy puts at position i of the merged array
PositionMerged(key, i) ==
    IF ~PositionDiffers(key, i) THEN data[key].a[i]
    ELSE IF BothObjects(key, i) THEN JObj(PositionDelta(key, i).modifiedResource)
    ELSE apiData[key].a[i]

IsReordering(s, t) ==
    /\ Len(s) = Len(t)
    /\ s # t
    /\ \E p \in [1..Len(s) -> 1..Len(s)] :
         /\ \A i, j \in 1..Len(s) : i # j => p[i] # p[j]
         /\ \A i \in 1..Len(s) : t[i] = s[p[i]]

\* the policy on the arrays under one key, but for reorderings
ArrayPolicyAt(key) ==
    LET rec == data[key].a
        act == apiData[key].a
    IN  IF Len(rec) # Len(act)
        THEN /\ delta.hasChanges
             /\ delta.modifiedResource[key] = apiData[key]
        ELSE IF \E i \in 1..Len(rec) : PositionDiffers(key, i)
        THEN /\ delta.hasChanges
             /\ delta.modifiedResource[key] =
                    JArr([i \in 1..Len(rec) |-> PositionMerged(key, i)])
        ELSE delta.modifiedResource[key] = data[key]

\* C12: for a key that is not ignored and holds arrays on both sides, arrays
\* of different length are a change and the merged tree holds the actual
\* array; arrays of equal length are compared position by position, a
\* differing position is a change, the merged array holds the recorded
\* element where nothing changed and the actual element (the recursive merge
\* for objects) where something did; a reordering is a change.
C12_ArrayPolicy ==
    op = "getDelta"
    => \A key \in ArrayKeys :
         /\ ~delta.panicked
         /\ ArrayPolicyAt(key)
         /\ IsReordering(data[key].a, apiData[key].a) => delta.hasChanges

\* C12 on the calls that return: the policy holds, and a reordering is a
\* change when some position then differs.
C12_ArrayPolicyWhenReturned ==
    Returned
    => \A key \in ArrayKeys :
         /\ ArrayPolicyAt(key)
         /\ (IsReordering(data[key].a, apiData[key].a)
                /\ \E i \in 1..Len(data[key].a) : PositionDiffers(key, i))
              => delta.hasChanges

\* C12 as stated, on the calls that return
C12_ReorderingWhenReturned ==
    Returned
    => \A key \in ArrayKeys :
         IsReordering(data[key].a, apiData[key].a) => delta.hasChanges

\* two arrays of the same length, the recorded one with a null element, and
\* no result
C12_Panics ==
    /\ op = "getDelta"
    /\ delta.panicked
    /\ \E key \in ArrayKeys :
         /\ Len(data[key].a) = Len(apiData[key].a)
         /\ \E i \in 1..Len(data[key].a) : data[key].a[i].t = "null"

Count(kind, key) ==
    Cardinality({i \in 1..Len(sent) :
                    sent[i].modificationType = kind /\ sent[i].path = key})

\* the requests a key of the effective desired tree calls for, against the
\* authoritative tree api
AddsDue(key, api) == IF key \notin DOMAIN api THEN 1 ELSE 0

ReplacesDue(key, api) ==
    IF key \in DOMAIN api /\ api[key] # desiredData[key] THEN 1 ELSE 0

\* every add or replace sent is for a key of the effective desired tree
OnlyDesiredKeysWritten ==
    \A i \in 1..Len(sent) :
        sent[i].modificationType \in {"add", "replace"}
        => sent[i].path \in DOMAIN desiredData

\* C14: a run that returns without error has sent, for every key of the
\* effective desired tree, one add when the authoritative tree lacks the
\* key, one replace when it holds another value, nothing when it holds the
\* same value; and no add or replace for any other key.
C14_Classification ==
    pc = "done"
    => /\ \A key \in DOMAIN desiredData :
            /\ Count("add", key) = AddsDue(key, startApi)
            /\ Count("replace", key) = ReplacesDue(key, startApi)
       /\ OnlyDesiredKeysWritten

\* C14 on the runs in which no response is parsed into the map the run
\* compares against: the classification, and never more than it on the way
C14_ClassificationWithoutRewrite ==
    (pc # "idle" /\ (~writeReturnsObject \/ ~aliased))
    => /\ \A key \in DOMAIN desiredData :
            /\ Count("add", key) <= AddsDue(key, startApi)
            /\ Count("replace", key) <= ReplacesDue(key, startApi)
            /\ pc \in {"deletes", "done"}
                 => /\ Count("add", key) = AddsDue(key, startApi)
                    /\ Count("replace", key) = ReplacesDue(key, startApi)
       /\ OnlyDesiredKeysWritten

\* a run that returned without the add of a desired key that the
\* authoritative tree, as it was at the start, did not have
C14_MissedAdd ==
    /\ pc = "done"
    /\ \E key \in DOMAIN desiredData \ DOMAIN startApi : Count("add", key) = 0

(***************************************************************************)
(* C15                                                                     *)
(***************************************************************************)
\* the deletes a key calls for, against the authoritative tree api
DeletesDue(key, api) ==
    IF /\ key \in DOMAIN api
       /\ key \notin DOMAIN desiredData
       /\ key # IdAttribute
       /\ ~matchesIgnorePattern(key, ignoreChangesTo)
    THEN 1 ELSE 0

\* every delete sent carries no value and is for a key that is not desired,
\* not the identity field and not ignored
DeletesAreProper ==
    \A i \in 1..Len(sent) :
        sent[i].modificationType = "delete"
        => /\ sent[i].value = Absent
           /\ sent[i].path \notin DOMAIN desiredData
           /\ sent[i].path # IdAttribute
           /\ ~matchesIgnorePattern(sent[i].path, ignoreChangesTo)

KeysOfRun ==
    DOMAIN startApi \cup DOMAIN apiData \cup DOMAIN desiredData
        \cup {sent[i].path : i \in 1..Len(sent)}

\* C15: a run that returns without error has sent one delete, without a
\* value, for exactly the keys that the authoritative tree has, the effective
\* desired tree lacks, that are not the identity field and that no pattern
\* matches; the identity field and the matched fields are never deleted.
C15_Deletes ==
    /\ DeletesAreProper
    /\ pc = "done"
         => \A key \in KeysOfRun : Count("delete", key) = DeletesDue(key, startApi)

\* C15 on the runs in which no response is parsed into the map the run
\* ranges over
C15_DeletesWithoutRewrite ==
    (~writeReturnsObject \/ ~aliased)
    => /\ DeletesAreProper
       /\ \A key \in KeysOfRun : Count("delete", key) <= DeletesDue(key, startApi)
       /\ pc = "done"
            => \A key \in KeysOfRun : Count("delete", key) = DeletesDue(key, startApi)

\* the properties of every delete, on every run
C15_DeletesAreProper == pc # "idle" => DeletesAreProper

\* a run that deleted a key which the authoritative tree, as it was at the
\* start, did not have
C15_DeletedNewKey ==
    /\ pc = "done"
    /\ \E key \in KeysOfRun : key \notin DOMAIN startApi /\ Count("delete", key) = 1

(***************************************************************************)
(* C16                                                                     *)
(***************************************************************************)
\* the value v, whose fields are at the level of the pattern list, holds a
\* field that the list designates: matched at its level, or designated
\* inside an object or inside an object placed directly in an array
RECURSIVE HasDesignated(_, _)
HasDesignated(v, list) ==
    IF v.t = "object"
    THEN \E key \in DOMAIN v.o :
            \/ matchesIgnorePattern(key, list)
            \/ HasDesignated(v.o[key], descendIgnoreList(key, list))
    ELSE IF v.t = "array"
    THEN \E i \in 1..Len(v.a) : v.a[i].t = "object" /\ HasDesignated(v.a[i], list)
    ELSE FALSE

\* the patterns of the caller's list as they apply to the fields of the tree
\* the run works on: below the envelope key when the run unwrapped it
RunList ==
    IF aliased THEN ignoreChangesTo
    ELSE descendIgnoreList(CHOOSE k \in DOMAIN data : TRUE, ignoreChangesTo)

Wildcards(list) == SelectSeq(list, LAMBDA p : HasPrefix(p, WildcardPrefix))

\* C16: the value of every add and replace that is sent holds no field that
\* the patterns designate at its path.
C16_PayloadHasNoIgnoredField ==
    pc # "idle"
    => \A i \in 1..Len(sent) :
         sent[i].modificationType \in {"add", "replace"}
         => ~HasDesignated(sent[i].value, descendIgnoreList(sent[i].path, RunList))

\* what holds of the code: no field matched by a wildcard pattern is in a
\* value that is sent
C16_PayloadHasNoWildcardField ==
    pc # "idle"
    => \A i \in 1..Len(sent) :
         sent[i].modificationType \in {"add", "replace"}
         => ~HasDesignated(sent[i].value, Wildcards(ignoreChangesTo))

\* a replace of o sent with the field f that the dotted path o.f designates
C16_SentIgnoredField ==
    /\ pc # "idle"
    /\ ignoreChangesTo = <<PatOF>>
    /\ aliased
    /\ \E i \in 1..Len(sent) :
         /\ sent[i].modificationType = "replace"
         /\ sent[i].path = KO
         /\ sent[i].value.t = "object"
         /\ KF \in DOMAIN sent[i].value.o

(***************************************************************************)
(* C17                                                                     *)
(***************************************************************************)
\* the value a request for key carries when nothing is filtered out of it
UnfilteredValue(key) ==
    IF desiredData[key].t = "null" THEN Absent ELSE desiredData[key]

\* C17: under the simple-key pattern [f] only the field f at the root of the
\* caller's document is suppressed: the fields inside the envelope are all
\* compared as the caller gave them, a field f inside the object under
\* another key is compared as the caller gave it, and the value of every add
\* and replace is sent with its nested fields f.
C17_SimpleKeyScoping ==
    (pc # "idle" /\ ignoreChangesTo = <<PatF>>)
    => /\ ~aliased => desiredData = data[CHOOSE k \in DOMAIN data : TRUE].o
       /\ aliased => \A key \in DOMAIN data \ {KF} : desiredData[key] = data[key]
       /\ \A i \in 1..Len(sent) :
            sent[i].modificationType \in {"add", "replace"}
            => sent[i].value = UnfilteredValue(sent[i].path)

\* what holds of the code: without an envelope, the fields under the keys
\* other than f are compared as the caller gave them
C17_NestedFieldCompared ==
    (pc # "idle" /\ ignoreChangesTo = <<PatF>> /\ aliased)
    => \A key \in DOMAIN data \ {KF} : desiredData[key] = data[key]

\* an object sent without its field f under the pattern [f]
C17_DroppedNestedField ==
    /\ pc # "idle"
    /\ ignoreChangesTo = <<PatF>>
    /\ \E i \in 1..Len(sent) :
         /\ sent[i].modificationType \in {"add", "replace"}
         /\ sent[i].path = KO
         /\ desiredData[KO].t = "object"
         /\ KF \in DOMAIN desiredData[KO].o
         /\ KF \notin DOMAIN sent[i].value.o

\* a field f inside the envelope kept at the authoritative value, not
\* compared, under the pattern [f]
C17_SuppressedInEnvelope ==
    /\ pc = "done"
    /\ ignoreChangesTo = <<PatF>>
    /\ ~aliased
    /\ KF \in DOMAIN startApi
    /\ LET inner == data[CHOOSE k \in DOMAIN data : TRUE].o
       IN  KF \in DOMAIN inner /\ inner[KF] # startApi[KF]
    /\ Count("replace", KF) = 0

(***************************************************************************)
(* C18                                                                     *)
(***************************************************************************)
\* C18: in every run, no add and no replace is sent after a delete.
C18_WritesBeforeDeletes ==
    \A i, j \in 1..Len(sent) :
        (i < j /\ sent[i].modificationType = "delete")
        => sent[j].modificationType = "delete"

\* a run that returned after an add, a replace and a delete
C18_Witness ==
    /\ pc = "done"
    /\ \E i, j, k \in 1..Len(sent) :
         /\ sent[i].modificationType = "add"
         /\ sent[j].modificationType = "replace"
         /\ sent[k].modificationType = "delete"

(***************************************************************************)
(* C19                                                                     *)
(***************************************************************************)
\* C19: a run has an error exactly when it has stopped on a failed request;
\* the request that failed is the last one sent, it was sent once, and the
\* error names its kind and its field; the requests before it stay sent.
C19_FailureStopsRun ==
    /\ (err # NoError) <=> (pc = "failed")
    /\ pc = "failed"
         => /\ Len(sent) >= 1
            /\ err.failed = sent[Len(sent)].modificationType
            /\ err.attribute = sent[Len(sent)].path
            /\ Count(err.failed, err.attribute) = 1

\* a transport failure at the second request, with keys left to process:
\* the first request stays applied
C19_Witness ==
    /\ pc = "failed"
    /\ err.cause = "sendRequest"
    /\ Len(sent) = 2
    /\ todo \ {err.attribute} # {}

(***************************************************************************)
(* C20                                                                     *)
(***************************************************************************)
\* the keys of the authoritative document matched at the level of the list
PreservedKeys == {key \in DOMAIN apiData : matchesIgnorePattern(key, ignoreChangesTo)}

\* C20: the result of mergeIgnoredFields has the keys of desired and the
\* matched keys of authoritative; a matched key of authoritative holds the
\* authoritative value, an unmatched key with objects on both sides holds the
\* merge of the two objects under the descended list, every other key holds
\* the desired value.
C20_MergeKeyByKey ==
    op = "mergeIgnoredFields"
    => /\ DOMAIN desiredData = DOMAIN data \cup PreservedKeys
       /\ \A key \in DOMAIN desiredData :
            IF key \in PreservedKeys
            THEN desiredData[key] = apiData[key]
            ELSE IF /\ key \in DOMAIN apiData
                    /\ data[key].t = "object" /\ apiData[key].t = "object"
            THEN desiredData[key] =
                     JObj(mergeIgnoredFields(data[key].o, apiData[key].o,
                              descendIgnoreList(key, ignoreChangesTo)))
            ELSE desiredData[key] = data[key]
       /\ \A key \in DOMAIN data \cap DOMAIN apiData :
            \* a simple key of the root list does not reach into an object
            (ignoreChangesTo = <<PatF>> /\ key # KF) => desiredData[key] = data[key]

\* a merge that took one field from the authoritative document at the root
\* and another inside the object o
C20_Witness ==
    /\ op = "mergeIgnoredFields"
    /\ PreservedKeys \ DOMAIN data # {}
    /\ KO \in DOMAIN data \ PreservedKeys
    /\ data[KO].t = "object"
    /\ desiredData[KO] # data[KO]

(***************************************************************************)
(* C21                                                                     *)
(***************************************************************************)
\* result is source with the fields designated by list left out: its keys are
\* the keys of source that list does not match; an object under a key is the
\* projection of the source's object by the list descended by that key; an
\* array under a key has the source's length, its object elements projected
\* by that same descended list and every other element as it was; any other
\* value is the source's value
RECURSIVE IsProjection(_, _, _)
IsProjection(result, source, list) ==
    /\ DOMAIN result = {key \in DOMAIN source : ~matchesIgnorePattern(key, list)}
    /\ \A key \in DOMAIN result :
          LET below == descendIgnoreList(key, list)
              was == source[key]
              now == result[key]
          IN  IF was.t = "object"
              THEN now.t = "object" /\ IsProjection(now.o, was.o, below)
              ELSE IF was.t = "array"
              THEN /\ now.t = "array"
                   /\ Len(now.a) = Len(was.a)
                   /\ \A i \in 1..Len(was.a) :
                         IF was.a[i].t = "object"
                         THEN /\ now.a[i].t = "object"
                              /\ IsProjection(now.a[i].o, was.a[i].o, below)
                         ELSE now.a[i] = was.a[i]
              ELSE now = was

\* C21: filterIgnoredFields(T, P) is T with exactly the ignored fields left
\* out: a key is omitted iff the list descended along its path matches it at
\* its level, objects under surviving keys are filtered with the list
\* descended by the key, object elements of arrays with that same list, and
\* non-object elements, scalars and nulls are passed through unchanged
C21_ExactProjection ==
    op = "filterIgnoredFields" => IsProjection(filtered, data, ignoreChangesTo)

\* a call that removed a field from an object element of an array by a dotted
\* path and passed the null element beside it through
C21_Witness ==
    /\ op = "filterIgnoredFields"
    /\ ignoreChangesTo = <<PatOF>>
    /\ data = [k \in {KF, KO} |-> IF k = KF THEN JStr(A) ELSE JArr(<<FA, JNull>>)]
    /\ filtered = [k \in {KF, KO} |->
                      IF k = KF THEN JStr(A) ELSE JArr(<<JObj(NoFields), JNull>>)]

(***************************************************************************)
(* C22                                                                     *)
(***************************************************************************)
IsWildcard(pattern) == HasPrefix(pattern, WildcardPrefix)

HasDot(pattern) == \E i \in 1..Len(pattern) : pattern[i] = Dot

FirstDot(pattern) ==
    CHOOSE i \in 1..Len(pattern) :
        pattern[i] = Dot /\ \A h \in 1..(i - 1) : pattern[h] # Dot

\* the text before the first dot of a dotted pattern, and the text after it
FirstComponent(pattern) == SubSeq(pattern, 1, FirstDot(pattern) - 1)

RestOfPath(pattern) == SubSeq(pattern, FirstDot(pattern) + 1, Len(pattern))

\* what the four rules give for one pattern one level inside key: a list of
\* one pattern, or the empty list when the pattern is dropped
RuleImage(key, pattern) ==
    IF IsWildcard(pattern) THEN <<pattern>>
    ELSE IF ~HasDot(pattern) THEN <<>>
    ELSE IF FirstComponent(pattern) = key THEN <<RestOfPath(pattern)>>
    ELSE <<>>

\* the positions of list whose pattern is not dropped inside key
Propagated(key, list) == {i \in 1..Len(list) : RuleImage(key, list[i]) # <<>>}

\* the n-th smallest position of a set of positions
NthOf(positions, n) ==
    CHOOSE i \in positions : Cardinality({h \in positions : h < i}) = n - 1

\* C22: _descendIgnoreList(key, P) maps each pattern of P on its own and in
\* order: a wildcard is copied, a simple key is dropped, a dotted path that
\* starts with key becomes the rest of the path, any other dotted path is
\* dropped; the result is never longer than P
C22_DescendRules ==
    op = "_descendIgnoreList" =>
        LET live == Propagated(descendPath, ignoreChangesTo)
        IN  /\ Len(newIgnoreList) = Cardinality(live)
            /\ Len(newIgnoreList) <= Len(ignoreChangesTo)
            /\ \A n \in 1..Len(newIgnoreList) :
                  newIgnoreList[n] =
                      RuleImage(descendPath, ignoreChangesTo[NthOf(live, n)])[1]

\* a descent that reduced a dotted path and then copied a wildcard, in the
\* order of the input
C22_Witness ==
    /\ op = "_descendIgnoreList"
    /\ descendPath = KO
    /\ ignoreChangesTo = <<PatOOF, PatAnyF>>
    /\ newIgnoreList = <<PatOF, PatAnyF>>

(***************************************************************************)
(* C23                                                                     *)
(***************************************************************************)
\* C23: a pattern produced by descending a pattern that does not start with
\* "*." is never itself a wildcard: every wildcard of the returned list is the
\* copy of a wildcard of the input list
C23_ReducedIsNeverWildcard ==
    op = "_descendIgnoreList" =>
        LET live == Propagated(descendPath, ignoreChangesTo)
        IN  \A n \in 1..Len(newIgnoreList) :
                IsWildcard(newIgnoreList[n]) =>
                    IsWildcard(ignoreChangesTo[NthOf(live, n)])

\* the same for the paths none of whose components is "*"
C23_NeverWildcardWithoutStarComponent ==
    op = "_descendIgnoreList" =>
        LET live == Propagated(descendPath, ignoreChangesTo)
        IN  \A n \in 1..Len(newIgnoreList) :
                LET source == ignoreChangesTo[NthOf(live, n)]
                IN  (IsWildcard(newIgnoreList[n]) /\ ~IsWildcard(source)) =>
                        \E c \in 1..Len(Split(source)) : Split(source)[c] = KStar

\* the path "o.*.f" descended by "o" is "*.f", which the matcher takes for a
\* wildcard over f and which every further descent copies
C23_ReducedToWildcard ==
    /\ op = "_descendIgnoreList"
    /\ descendPath = KO
    /\ ignoreChangesTo = <<PatOAnyF>>
    /\ newIgnoreList = <<PatAnyF>>
    /\ matchesIgnorePattern(KF, newIgnoreList)
    /\ \A key \in DescendKeys : descendIgnoreList(key, newIgnoreList) = newIgnoreList

(***************************************************************************)
(* C24                                                                     *)
(***************************************************************************)
\* the result of the call is what the function on values returns
HeapAgrees ==
    /\ op = "getDelta" => delta = getDelta(data, apiData, ignoreChangesTo)
    /\ op = "filterIgnoredFields" =>
           filtered = filterIgnoredFields(data, ignoreChangesTo)
    /\ op = "mergeIgnoredFields" =>
           desiredData = mergeIgnoredFields(data, apiData, ignoreChangesTo)
    /\ op = "_descendIgnoreList" =>
           newIgnoreList = descendIgnoreList(descendPath, ignoreChangesTo)

\* C24: getDelta, filterIgnoredFields, mergeIgnoredFields and
\* _descendIgnoreList leave their inputs unchanged: after the call, with all
\* its recursive calls, the two input trees and the pattern list hold the keys
\* and values they held before
C24_InputsUnchanged ==
    /\ Load(heap, Ref(roots.data)) = JObj(data)
    /\ Load(heap, Ref(roots.apiData)) = JObj(apiData)
    /\ ListAt(heap, roots.ignoreList) = ignoreChangesTo

\* a call that returned a tree sharing a cell with one of its inputs
C24_Witness ==
    /\ op \in {"getDelta", "mergeIgnoredFields"}
    /\ HeapAgrees
    /\ ~delta.panicked
    /\ ignoreChangesTo = <<PatOF>>
    /\ data # apiData
    /\ resultAt > roots.ignoreList
    /\ \E key \in DOMAIN heap[resultAt].o :
          /\ heap[resultAt].o[key].t = "ref"
          /\ heap[resultAt].o[key].at < roots.ignoreList

(***************************************************************************)
(* C25                                                                     *)
(***************************************************************************)
Patches == {i \in 1..Len(requests) : requests[i].method = "PATCH"}

\* C25: in resourceRestAPIUpdate with PATCH and a non-empty ignore list the
\* object is read first; when getDelta on the desired data, the API data and
\* the list reports no change the update returns success and no write request
\* has been sent; a write is sent only after a change was reported; a failed
\* read ends the update with an error before any write
C25_NoChangeNoPatch ==
    Len(ignoreChangesTo) > 0 =>
        /\ requests # <<>> => requests[1].method = "GET"
        /\ pc \notin {"update", "detect"} /\ op = "none" =>
               pc = "failed" /\ err # NoError /\ Patches = {}
        /\ op = "getDelta" /\ ~delta.panicked /\ ~delta.hasChanges =>
               /\ pc = "done"
               /\ err = NoError
               /\ delta = getDelta(data, apiData, ignoreChangesTo)
               /\ Len(requests) = 1
        /\ Patches # {} => op = "getDelta" /\ delta.hasChanges

\* an update that read the object, found the only difference ignored and
\* returned without a write
C25_Witness ==
    /\ pc = "done"
    /\ err = NoError
    /\ ignoreChangesTo = <<PatF>>
    /\ KF \in DOMAIN data /\ KF \in DOMAIN apiData
    /\ data[KF] # apiData[KF]
    /\ op = "getDelta" /\ ~delta.hasChanges
    /\ requests = <<[method |-> "GET", id |-> One]>>

(***************************************************************************)
(* C26                                                                     *)
(***************************************************************************)
\* C26: no PATCH request is sent for an object whose id is empty: every patch
\* request of an update goes to a path built from a non-empty id, also when
\* the read that precedes the patch run got a 404 from the server
C26_PatchHasId ==
    \A i \in Patches : requests[i].id # <<>>

\* the same for the updates whose read in updateObject did not get a 404
C26_PatchHasIdUnlessNotFound ==
    \A i \in Patches :
        requests[i].id = <<>> =>
            \E j \in 1..(i - 1) :
                /\ requests[j] = [method |-> "GET", id |-> One]
                /\ requests[j + 1].id = <<>>

\* updateObject read the object, got a 404, and the patch run that followed
\* sent an Add to the path of the empty id
C26_PatchedWithoutId ==
    /\ ignoreChangesTo = <<>>
    /\ requests = <<[method |-> "GET", id |-> One], [method |-> "PATCH", id |-> <<>>]>>
    /\ Len(sent) = 1
    /\ sent[1].modificationType = "add"

(***************************************************************************)
(* C27                                                                     *)
(***************************************************************************)
\* C27: whenever createObject returns without error the object's id is not
\* empty, whatever the client configuration and whatever the server answers
\* to the create request and to the read that follows it
C27_CreatedHasId ==
    pc = "done" /\ err = NoError => id # <<>>

\* the same for the creates that take the id from the response of the create
\* request, and for those whose follow-up read did not get a 404
C27_CreatedHasIdUnlessNotFound ==
    pc = "done" /\ err = NoError /\ id = <<>> =>
        /\ ~writeReturnsObject /\ ~createReturnsObject
        /\ requests = <<[method |-> "POST", id |-> One], [method |-> "GET", id |-> One]>>
        /\ apiData = NoFields

\* a create that returned nil with the id emptied by the 404 of its read
C27_CreatedWithoutId ==
    /\ pc = "done"
    /\ err = NoError
    /\ id = <<>>
    /\ requests = <<[method |-> "POST", id |-> One], [method |-> "GET", id |-> One]>>

\* a create that took its id from the response
C27_IdFromResponse ==
    /\ pc = "done"
    /\ err = NoError
    /\ id = One
    /\ requests = <<[method |-> "POST", id |-> <<>>]>>

(***************************************************************************)
(* C28                                                                     *)
(***************************************************************************)
Operation(kind, key, value) ==
    [modificationType |-> kind,
     path |-> key,
     value |-> payloadValue(kind, value, ignoreChangesTo)]

\* the operations the effective desired tree calls for against the
\* authoritative tree api
OperationsDue(api) ==
    {Operation("add", key, desiredData[key]) :
        key \in DOMAIN desiredData \ DOMAIN api}
    \cup {Operation("replace", key, desiredData[key]) :
             key \in {k \in DOMAIN desiredData \cap DOMAIN api :
                         api[k] # desiredData[k]}}
    \cup {Operation("delete", key, JNull) :
             key \in {k \in DOMAIN api \ DOMAIN desiredData :
                         k # IdAttribute /\ ~matchesIgnorePattern(k, ignoreChangesTo)}}

OperationsSent == {sent[i] : i \in 1..Len(sent)}

\* C28: the operations a run of patchMidpointObject sends are determined by
\* the desired tree and the authoritative tree as they were when the run
\* started: every operation sent is one that is due against the authoritative
\* tree of the start, none is sent twice, and a run that returns has sent them
\* all, whatever responses were parsed into obj.apiData on the way
C28_OperationsFixedAtStart ==
    pc # "idle" =>
        /\ OperationsSent \subseteq OperationsDue(startApi)
        /\ Cardinality(OperationsSent) = Len(sent)
        /\ pc = "done" => OperationsSent = OperationsDue(startApi)

\* C28 on the runs whose envelope is unwrapped or whose responses are not
\* parsed
C28_FixedWithoutRewrite ==
    (~writeReturnsObject \/ ~aliased) => C28_OperationsFixedAtStart

\* a run that returned after a response had been parsed into obj.apiData and
\* that sent other operations than the ones due when it started
C28_ChangedByResponse ==
    /\ pc = "done"
    /\ writeReturnsObject
    /\ aliased
    /\ apiData # startApi
    /\ OperationsSent # OperationsDue(startApi)
    /\ OperationsSent = OperationsDue(apiData)

(***************************************************************************)
(* C29                                                                     *)
(***************************************************************************)
\* obj.apiData is still the tree the run was started with
ApiDataAsAtStart == sent = <<>> \/ ~writeReturnsObject

\* what the detection of resourceRestAPIUpdate reports on the trees of the run
Drift == getDelta(data, apiData, ignoreChangesTo)

\* C29: the drift verdict and the patch synthesizer agree: with a non-empty
\* ignore list, getDelta on the desired tree, the authoritative tree and the
\* list reports a change exactly when the run of patchMidpointObject on the
\* same trees and list sends at least one operation
C29_VerdictAgreesWithPatch ==
    (Len(ignoreChangesTo) > 0 /\ ApiDataAsAtStart /\ ~Drift.panicked) =>
        /\ sent # <<>> => Drift.hasChanges
        /\ pc = "done" /\ sent = <<>> => ~Drift.hasChanges

\* the desired tree is as buildAPIObjectOpts leaves it: without the fields
\* the list designates
LoadedThroughFilter == data = filterIgnoredFields(data, ignoreChangesTo)

\* a run that sent an operation although getDelta reports no change on its
\* trees: the delete of a field that a dotted path through the envelope
\* designates
C29_SkippedOperation ==
    /\ Len(ignoreChangesTo) > 0
    /\ LoadedThroughFilter
    /\ ApiDataAsAtStart
    /\ ~Drift.panicked
    /\ ~Drift.hasChanges
    /\ sent # <<>>

\* a run without an envelope that returned without any operation although
\* getDelta reports a change on its trees: the identity field, which the
\* server returns and the desired tree does not hold
C29_EmptyPatch ==
    /\ Len(ignoreChangesTo) > 0
    /\ LoadedThroughFilter
    /\ aliased
    /\ DOMAIN data # {}
    /\ ~Drift.panicked
    /\ Drift.hasChanges
    /\ pc = "done"
    /\ sent = <<>>

\* a run on an envelope that returned without any operation although getDelta
\* reports a change on its trees
C29_EmptyPatchInEnvelope ==
    /\ Len(ignoreChangesTo) > 0
    /\ LoadedThroughFilter
    /\ ~aliased
    /\ ~Drift.panicked
    /\ Drift.hasChanges
    /\ pc = "done"
    /\ sent = <<>>

(***************************************************************************)
(* C30                                                                     *)
(***************************************************************************)
\* the comparison of the two filtered documents with the empty pattern list
FilteredDrift ==
    getDelta(filterIgnoredFields(data, ignoreChangesTo),
             filterIgnoredFields(apiData, ignoreChangesTo), <<>>)

\* C30: ignoring by pattern is filtering first: getDelta(A, B, P) and
\* getDelta(filterIgnoredFields(A, P), filterIgnoredFields(B, P), []) agree
\* on failing and, when they return, on the changed flag, for all documents
\* A, B and every pattern list P.
C30_IgnoringIsFilteringFirst ==
    op = "getDelta" => SameVerdict(delta, FilteredDrift)

\* a pattern list that removes something from both documents, the removed
\* parts differing, and the comparison returning no change
C30_Witness ==
    /\ Returned /\ ~delta.hasChanges
    /\ ignoreChangesTo # <<>>
    /\ filterIgnoredFields(data, ignoreChangesTo) # data
    /\ filterIgnoredFields(apiData, ignoreChangesTo) # apiData
    /\ data # apiData
    /\ getDelta(data, apiData, <<>>).hasChanges

\* a pattern list that removes something, the remaining parts differing
C30_WitnessChanged ==
    /\ Returned /\ delta.hasChanges
    /\ filterIgnoredFields(data, ignoreChangesTo) # data
    /\ FilteredDrift.hasChanges

====
